---- MODULE Spec2Model ----
(***************************************************************************)
(* Battle City clone: the frame loop of GameManager, the collision         *)
(* detector (CollisionManager.check_collisions) and the collision resolver *)
(* (GameManager._process_collisions and its handlers), with the entities   *)
(* they act on (Tank, EnemyTank, PlayerTank, Bullet, Tile, Map).           *)
(*                                                                         *)
(* Lengths are pixels, times are frames (one update() advances every timer *)
(* by dt = 1/FPS).  The classes are those of src/src: EnemyTank extends    *)
(* Tank, PlayerTank extends GameObject only.  Entities are referred to by  *)
(* a triple:                                                               *)
(*   <<"bullet", o, 0>>  the bullet owned by tank o                        *)
(*   <<"tank",   o, 0>>  tank o (0 = the player, i >= 1 = enemy_tanks[i])  *)
(*   <<"tile",  gx, gy>> the tile at grid cell (gx, gy)                    *)
(***************************************************************************)
EXTENDS Integers, Sequences, FiniteSets, TLC

(***************************************************************************)
(* Program constants                                                       *)
(***************************************************************************)
TILE_SIZE == 32
GRID_WIDTH == 16
GRID_HEIGHT == 16
BULLET_WIDTH == 8
BULLET_HEIGHT == 8
\* Bullet.speed * dt = (BULLET_SPEED * FPS) * (1 / FPS) pixels per frame
BulletStep == 6
\* Tank speed (pixels per accepted move): TANK_SPEED, and 0.75 * TANK_SPEED
\* for a "basic" enemy; "armor" enemies use TANK_SPEED
TANK_SPEED == 12
BasicEnemySpeed == 9
\* Timers are floats advanced by dt = 1/60 and compared with ">="; a timer
\* here is the number of additions made since it was 0.  The float sum of
\* FPS * s additions of dt stays below s for every interval but move_delay
\* (300 additions give 4.999999999999988 for 5.0), so an interval of s
\* seconds is first reached by addition FPS * s + 1.
\* Tank.move_delay = 0.15 s: reached by addition 9
MoveDelay == 9
\* GameManager.max_enemy_spawns, spawn_interval = 5.0 s: addition 301
max_enemy_spawns == 5
spawn_interval == 301
\* PlayerTank: lives, respawn_duration (3.0 s: addition 181) and speed
PlayerLives == 3
PlayerInvincibilityDuration == 181
PlayerSpeed == 2
\* EnemyTank.TANK_PROPERTIES: health, shoot_interval (2.0 s, 1.5 s) and
\* direction_change_interval (2.5 s, 2.0 s)
BasicHealth == 1
ArmorHealth == 4
BasicShootInterval == 121
ArmorShootInterval == 91
BasicDirectionInterval == 151
ArmorDirectionInterval == 121
\* random.uniform(0, 0.5) and random.uniform(0, 0.3): a timer restarted at
\* the real u reaches its interval ceil(u * FPS) additions earlier than one
\* restarted at 0, that is 0 .. 30 and 0 .. 18 additions earlier
DirectionOffsetMax == 30
ShootOffsetMax == 18

Dirs == {"up", "down", "left", "right"}
TileTypes == {"EMPTY", "BRICK", "STEEL", "WATER", "BUSH", "ICE", "BASE",
              "BASE_DESTROYED"}
GameStates == {"RUNNING", "GAME_OVER", "VICTORY"}

(***************************************************************************)
(* Bounds of the model                                                     *)
(***************************************************************************)
\* update() calls explored per behaviour
MaxFrames == 2

\* input events handled per behaviour
MaxInputs == 2

\* no input event handled yet
NoInputs == [n |-> 0, last |-> [type |-> "none", key |-> "none"]]

\* methods called directly per behaviour
MaxCalls == 3

\* the largest amount passed to take_damage
MaxDamage == 2

\* no method called yet; target is the tank the calls go to: i > 0 is the
\* tank at position i of the roster, 0 stands for the game and the player
NoCall ==
  [n |-> 0, target |-> 0, op |-> "none", args |-> <<>>, ret |-> FALSE,
   raised |-> FALSE]

VARIABLES
  state,              \* GameManager.state
  tiles,              \* Map.tiles: [cell -> tile type]
  player,             \* GameManager.player_tank
  enemies,            \* GameManager.enemy_tanks (the roster, a sequence)
  total_enemy_spawns, \* GameManager.total_enemy_spawns
  spawn_timer,        \* GameManager.spawn_timer, in frames
  keys,               \* InputHandler.directions: the set of held directions
  events,             \* CollisionManager._collision_events
  pc,                 \* "idle", "resolve" while _process_collisions runs,
                      \* or "raised" once an exception has left update(),
                      \* handle_events() or _process_collisions()
  idx,                \* index of the next event of the batch
  processed_bullets,  \* locals of _process_collisions
  reverted_tanks,
  enemies_to_remove,
  frames,             \* number of update() calls so far
  pre,                \* history: the world when the current resolve pass began
  log,                \* history: what each handled event of the batch met
                      \* and whether its handler acted, for the pass that
                      \* is running or was the last call
  loop,               \* position of run(): "off" while run() is not
                      \* executing, "events", "update", "render"
  inputs,             \* history: the number of input events handled so
                      \* far and the last of them
  call                \* history: the last method called directly, its
                      \* arguments, the value it returned, whether it raised

vars == <<state, tiles, player, enemies, total_enemy_spawns, spawn_timer,
          keys, events, pc, idx, processed_bullets, reverted_tanks,
          enemies_to_remove, frames, pre, log, loop, inputs, call>>

(***************************************************************************)
(* Geometry: pygame.Rect and Rect.colliderect                              *)
(***************************************************************************)
Rect(x, y, w, h) == [x |-> x, y |-> y, w |-> w, h |-> h]

colliderect(a, b) ==
  /\ a.x < b.x + b.w
  /\ b.x < a.x + a.w
  /\ a.y < b.y + b.h
  /\ b.y < a.y + a.h

(***************************************************************************)
(* Tile and Map                                                            *)
(***************************************************************************)
Cells == (0 .. GRID_WIDTH - 1) \X (0 .. GRID_HEIGHT - 1)

\* the order in which Map's "for row in tiles: for tile in row" visits cells
CellSeq ==
  [i \in 1 .. GRID_WIDTH * GRID_HEIGHT |->
     <<(i - 1) % GRID_WIDTH, (i - 1) \div GRID_WIDTH>>]

TileRect(c) == Rect(c[1] * TILE_SIZE, c[2] * TILE_SIZE, TILE_SIZE, TILE_SIZE)

BaseCell == <<GRID_WIDTH \div 2, GRID_HEIGHT - 2>>

_create_test_map ==
  [c \in Cells |->
     IF c[2] = 0 \/ c[2] = GRID_HEIGHT - 1 \/ c[1] = 0 \/ c[1] = GRID_WIDTH - 1
     THEN "STEEL"
     ELSE IF 5 <= c[1] /\ c[1] < 8 /\ 5 <= c[2] /\ c[2] < 8
     THEN "WATER"
     ELSE IF c = BaseCell
     THEN "BASE"
     ELSE "EMPTY"]

get_tiles_by_type(tl, types) ==
  SelectSeq(CellSeq, LAMBDA c : tl[c] \in types)

\* the first BASE tile in scan order, as a sequence of length 0 or 1
get_base(tl) ==
  LET bs == get_tiles_by_type(tl, {"BASE"})
  IN  IF bs = <<>> THEN <<>> ELSE <<bs[1]>>

get_collidable_tiles(tl) ==
  get_tiles_by_type(tl, {"BRICK", "STEEL", "BASE", "WATER"})

(***************************************************************************)
(* Bullet                                                                  *)
(***************************************************************************)
\* (x, y) is the position, (rx, ry) the top-left corner of Bullet.rect
NoBullet ==
  [exists |-> FALSE, x |-> 0, y |-> 0, rx |-> 0, ry |-> 0,
   direction |-> "up", owner_type |-> "none", active |-> FALSE]

Bullet(x, y, direction, owner_type) ==
  [exists |-> TRUE, x |-> x, y |-> y, rx |-> x, ry |-> y,
   direction |-> direction, owner_type |-> owner_type, active |-> TRUE]

BulletRect(b) == Rect(b.rx, b.ry, BULLET_WIDTH, BULLET_HEIGHT)

\* an update() that brings a spent bullet back into flight
Bullet_update_Revives(b) ==
  IF ~b.active THEN [b EXCEPT !.active = TRUE]
  ELSE
    LET nx == IF b.direction = "left" THEN b.x - BulletStep
              ELSE IF b.direction = "right" THEN b.x + BulletStep
              ELSE b.x
        ny == IF b.direction = "up" THEN b.y - BulletStep
              ELSE IF b.direction = "down" THEN b.y + BulletStep
              ELSE b.y
    IN  IF \/ nx < 0
           \/ nx > GRID_WIDTH * TILE_SIZE
           \/ ny < 0
           \/ ny > GRID_HEIGHT * TILE_SIZE
        THEN [b EXCEPT !.x = nx, !.y = ny, !.active = FALSE]
        ELSE [b EXCEPT !.x = nx, !.y = ny, !.rx = nx, !.ry = ny]

\* an update() that moves a bullet without the test of the playfield bounds
Bullet_update_NoBounds(b) ==
  IF ~b.active THEN b
  ELSE
    LET nx == IF b.direction = "left" THEN b.x - BulletStep
              ELSE IF b.direction = "right" THEN b.x + BulletStep
              ELSE b.x
        ny == IF b.direction = "up" THEN b.y - BulletStep
              ELSE IF b.direction = "down" THEN b.y + BulletStep
              ELSE b.y
    IN  [b EXCEPT !.x = nx, !.y = ny, !.rx = nx, !.ry = ny]

Bullet_update(b) ==
  IF ~b.active THEN b
  ELSE
    LET nx == IF b.direction = "left" THEN b.x - BulletStep
              ELSE IF b.direction = "right" THEN b.x + BulletStep
              ELSE b.x
        ny == IF b.direction = "up" THEN b.y - BulletStep
              ELSE IF b.direction = "down" THEN b.y + BulletStep
              ELSE b.y
    IN  IF \/ nx < 0
           \/ nx > GRID_WIDTH * TILE_SIZE
           \/ ny < 0
           \/ ny > GRID_HEIGHT * TILE_SIZE
        THEN [b EXCEPT !.x = nx, !.y = ny, !.active = FALSE]
        ELSE [b EXCEPT !.x = nx, !.y = ny, !.rx = nx, !.ry = ny]

(***************************************************************************)
(* Tank                                                                    *)
(***************************************************************************)
\* GameObject.rect: (rx, ry) is its top-left corner, assigned by
\* GameObject.__init__ and update(), Tank._move and Tank.revert_move
TankRect(t) == Rect(t.rx, t.ry, TILE_SIZE, TILE_SIZE)

\* Tank(x, y, texture_manager, health=health, lives=lives); id stands for
\* the identity of the Python object
Tank(x, y, texture_manager, health, lives, id) ==
  [id |-> id, x |-> x, y |-> y, rx |-> x, ry |-> y,
   prev_x |-> x, prev_y |-> y, direction |-> "up",
   health |-> health, max_health |-> health,
   lives |-> lives, is_invincible |-> FALSE, invincibility_timer |-> 0,
   invincibility_duration |-> 0, move_timer |-> 0,
   speed |-> TANK_SPEED, bullet |-> NoBullet,
   owner_type |-> "base_tank", texture_manager |-> texture_manager]

\* a take_damage that does not restore the health when a life is consumed
take_damage_NoReset(t, amount) ==
  IF t.is_invincible THEN [tank |-> t, destroyed |-> FALSE]
  ELSE
    LET h == IF t.health - amount > 0 THEN t.health - amount ELSE 0
    IN  IF h <= 0
        THEN [tank |-> [t EXCEPT !.health = h, !.lives = t.lives - 1],
              destroyed |-> ~(t.lives - 1 > 0)]
        ELSE [tank |-> [t EXCEPT !.health = h], destroyed |-> FALSE]

\* the tank after take_damage(amount), and the value it returns
take_damage(t, amount) ==
  IF t.is_invincible THEN [tank |-> t, destroyed |-> FALSE]
  ELSE
    LET h == IF t.health - amount > 0 THEN t.health - amount ELSE 0
    IN  IF h <= 0
        THEN IF t.lives - 1 > 0
             THEN [tank |-> [t EXCEPT !.health = t.max_health,
                                      !.lives = t.lives - 1],
                   destroyed |-> FALSE]
             ELSE [tank |-> [t EXCEPT !.health = h, !.lives = t.lives - 1],
                   destroyed |-> TRUE]
        ELSE [tank |-> [t EXCEPT !.health = h], destroyed |-> FALSE]

\* a shoot() that fires whatever the state of the tank's bullet
shoot_Always(t) ==
  [t EXCEPT !.bullet =
     Bullet(t.x + (TILE_SIZE \div 2) - (BULLET_WIDTH \div 2),
            t.y + (TILE_SIZE \div 2) - (BULLET_HEIGHT \div 2),
            t.direction, t.owner_type)]

shoot(t) ==
  IF ~t.bullet.exists \/ ~t.bullet.active
  THEN [t EXCEPT !.bullet =
          Bullet(t.x + (TILE_SIZE \div 2) - (BULLET_WIDTH \div 2),
                 t.y + (TILE_SIZE \div 2) - (BULLET_HEIGHT \div 2),
                 t.direction, t.owner_type)]
  ELSE t

\* an update() whose invincibility timer runs on without the comparison
Tank_update_NoTimeout(t) ==
  LET t1 == [t EXCEPT !.prev_x = t.x, !.prev_y = t.y]
      t2 == IF t1.is_invincible
            THEN [t1 EXCEPT !.invincibility_timer = @ + 1]
            ELSE t1
      t3 == [t2 EXCEPT !.move_timer = @ + 1, !.rx = t.x, !.ry = t.y]
  IN  IF t3.bullet.exists
      THEN [t3 EXCEPT !.bullet = Bullet_update(@)]
      ELSE t3

Tank_update(t) ==
  LET t1 == [t EXCEPT !.prev_x = t.x, !.prev_y = t.y]
      t2 == IF t1.is_invincible
            THEN IF t1.invincibility_timer + 1 >= t1.invincibility_duration
                 THEN [t1 EXCEPT !.is_invincible = FALSE,
                                 !.invincibility_timer = 0]
                 ELSE [t1 EXCEPT !.invincibility_timer = @ + 1]
            ELSE t1
      t3 == [t2 EXCEPT !.move_timer = @ + 1, !.rx = t.x, !.ry = t.y]
  IN  IF t3.bullet.exists
      THEN [t3 EXCEPT !.bullet = Bullet_update(@)]
      ELSE t3

\* Tank.texture_manager is "TextureManager" for an instance of that class;
\* _update_sprite can call get_sprite on nothing else
HasSprites(t) == t.texture_manager = "TextureManager"

\* a _move that accepts diagonal moves
_move_Diagonal(t, dx, dy) ==
  IF t.move_timer < MoveDelay
  THEN [tank |-> t, moved |-> FALSE, raised |-> FALSE]
  ELSE LET nx == t.x + dx * t.speed
           ny == t.y + dy * t.speed
           t1 == [t EXCEPT !.x = nx, !.y = ny, !.move_timer = 0]
       IN  IF HasSprites(t)
           THEN [tank |-> [t1 EXCEPT !.rx = nx, !.ry = ny],
                 moved |-> TRUE, raised |-> FALSE]
           ELSE [tank |-> t1, moved |-> FALSE, raised |-> TRUE]

\* the tank after _move(dx, dy), the value it returns, and whether it raises
\* instead of returning: an accepted move assigns x, y and move_timer and
\* then calls _update_sprite, whose self.texture_manager.get_sprite raises
\* AttributeError when texture_manager is not a TextureManager (only
\* KeyError is caught); rect.topleft, assigned after that call, is then
\* left where it was
_move(t, dx, dy) ==
  IF t.move_timer < MoveDelay
  THEN [tank |-> t, moved |-> FALSE, raised |-> FALSE]
  ELSE IF dx # 0 /\ dy # 0
  THEN [tank |-> t, moved |-> FALSE, raised |-> FALSE]
  ELSE LET nx == t.x + dx * t.speed
           ny == t.y + dy * t.speed
           t1 == [t EXCEPT !.x = nx, !.y = ny, !.move_timer = 0]
       IN  IF HasSprites(t)
           THEN [tank |-> [t1 EXCEPT !.rx = nx, !.ry = ny],
                 moved |-> TRUE, raised |-> FALSE]
           ELSE [tank |-> t1, moved |-> FALSE, raised |-> TRUE]

\* obstacle is <<>> (no argument) or <<rect>>
revert_move(t, obstacle) ==
  IF obstacle # <<>> /\ obstacle[1].w # 0 /\ obstacle[1].h # 0
  THEN LET o == obstacle[1]
           t1 == IF t.direction = "right" THEN [t EXCEPT !.x = o.x - TILE_SIZE]
                 ELSE IF t.direction = "left" THEN [t EXCEPT !.x = o.x + o.w]
                 ELSE IF t.direction = "down"
                 THEN [t EXCEPT !.y = o.y - TILE_SIZE]
                 ELSE IF t.direction = "up" THEN [t EXCEPT !.y = o.y + o.h]
                 ELSE t
       IN  [t1 EXCEPT !.rx = t1.x, !.ry = t1.y]
  ELSE [t EXCEPT !.x = t.prev_x, !.y = t.prev_y,
                 !.rx = t.prev_x, !.ry = t.prev_y]

(***************************************************************************)
(* EnemyTank                                                               *)
(***************************************************************************)
TankTypes == {"basic", "armor"}

TypeHealth(tt) == IF tt = "armor" THEN ArmorHealth ELSE BasicHealth
TypeSpeed(tt) == IF tt = "armor" THEN TANK_SPEED ELSE BasicEnemySpeed
TypeShootInterval(tt) ==
  IF tt = "armor" THEN ArmorShootInterval ELSE BasicShootInterval
TypeDirectionInterval(tt) ==
  IF tt = "armor" THEN ArmorDirectionInterval ELSE BasicDirectionInterval

\* the values random.uniform(0, 0.5) and random.uniform(0, 0.3) are drawn from
DirectionOffsets == 0 .. DirectionOffsetMax
ShootOffsets == 0 .. ShootOffsetMax

\* round(x / tile_size) * tile_size: Python rounds a half to the even integer
GridAlign(x) ==
  LET q == x \div TILE_SIZE
      r == x % TILE_SIZE
  IN  IF 2 * r < TILE_SIZE THEN q * TILE_SIZE
      ELSE IF 2 * r > TILE_SIZE THEN (q + 1) * TILE_SIZE
      ELSE IF q % 2 = 0 THEN q * TILE_SIZE
      ELSE (q + 1) * TILE_SIZE

\* EnemyTank(x, y, tile_size, tank_type): the position is aligned to the
\* grid, and super().__init__(grid_x, grid_y, tile_size, sprite, ...) puts
\* tile_size in the place of Tank's parameter texture_manager, so the tank's
\* texture_manager is an int.  direction is the value random.choice returns,
\* id stands for the identity of the Python object
EnemyTank(x, y, tank_type, direction, id) ==
  [id |-> id, x |-> GridAlign(x), y |-> GridAlign(y),
   rx |-> GridAlign(x), ry |-> GridAlign(y),
   prev_x |-> GridAlign(x), prev_y |-> GridAlign(y), direction |-> direction,
   health |-> TypeHealth(tank_type), max_health |-> TypeHealth(tank_type),
   lives |-> 1, is_invincible |-> FALSE, invincibility_timer |-> 0,
   invincibility_duration |-> 0, move_timer |-> 0,
   speed |-> TypeSpeed(tank_type), bullet |-> NoBullet,
   owner_type |-> "enemy", tank_type |-> tank_type,
   direction_timer |-> 0, shoot_timer |-> 0, texture_manager |-> "int"]

opposite_direction(d) ==
  CASE d = "up" -> "down"
    [] d = "down" -> "up"
    [] d = "left" -> "right"
    [] d = "right" -> "left"

\* a choice among the directions other than the current one
_change_direction_Fallback(d) == Dirs \ {d}

\* the directions random.choice may return in _change_direction
_change_direction(d) == Dirs \ {opposite_direction(d)}

DirDx(d) == IF d = "left" THEN -1 ELSE IF d = "right" THEN 1 ELSE 0
DirDy(d) == IF d = "up" THEN -1 ELSE IF d = "down" THEN 1 ELSE 0

\* EnemyTank.update(dt) up to the call of _move: the Tank update, the two
\* timers, the periodic change of direction and the periodic shot
EnemyTank_update_timers(e) ==
  LET e1 == Tank_update(e)
      e2 == [e1 EXCEPT !.direction_timer = @ + 1, !.shoot_timer = @ + 1]
      AfterDir ==
        IF e2.direction_timer >= TypeDirectionInterval(e2.tank_type)
        THEN {[e2 EXCEPT !.direction = d, !.direction_timer = o] :
                d \in _change_direction(e2.direction), o \in DirectionOffsets}
        ELSE {e2}
      AfterShoot(a) ==
        IF a.shoot_timer >= TypeShootInterval(a.tank_type)
        THEN {[shoot(a) EXCEPT !.shoot_timer = o] : o \in ShootOffsets}
        ELSE {a}
  IN  UNION {AfterShoot(a) : a \in AfterDir}

\* EnemyTank.update(dt) up to the test that follows the call of _move: the
\* tank _move leaves, whether _move raised, and whether the test "movement
\* blocked or reverted" holds
EnemyTank_update_move(e) ==
  {LET dx == DirDx(a.direction)
       dy == DirDy(a.direction)
       m == _move(a, dx, dy)
       b == m.tank
   IN  [tank |-> b, raised |-> m.raised,
        blocked |-> \/ ~m.moved /\ b.move_timer >= MoveDelay
                    \/ /\ b.x = b.prev_x
                       /\ b.y = b.prev_y
                       /\ (dx # 0 \/ dy # 0)] :
   a \in EnemyTank_update_timers(e)}

\* the end of EnemyTank.update(dt): a blocked enemy draws a new direction
\* and restarts its direction timer at a random offset
EnemyTank_update_redirect(m) ==
  IF m.blocked
  THEN {[m.tank EXCEPT !.direction = d, !.direction_timer = o] :
          d \in _change_direction(m.tank.direction), o \in DirectionOffsets}
  ELSE {m.tank}

\* the enemies EnemyTank.update(dt) can leave in place of e when it returns
EnemyTank_update(e) ==
  UNION {EnemyTank_update_redirect(m) :
           m \in {r \in EnemyTank_update_move(e) : ~r.raised}}

\* the enemies EnemyTank.update(dt) leaves when the AttributeError of _move
\* ends it
EnemyTank_update_raised(e) ==
  {m.tank : m \in {r \in EnemyTank_update_move(e) : r.raised}}

(***************************************************************************)
(* PlayerTank and InputHandler                                             *)
(***************************************************************************)
PlayerStartX == ((GRID_WIDTH \div 2) - 1) * TILE_SIZE
PlayerStartY == (GRID_HEIGHT - 2) * TILE_SIZE

\* PlayerTank(x, y, tile_size, sprite) of src/core/player_tank.py: a
\* GameObject, not a Tank, moving speed = 2 pixels per update, with neither
\* health, owner_type, prev_x, take_damage nor revert_move, whose
\* invincibility is timed by respawn_timer against respawn_duration.
\* GameManager passes its texture manager as the fourth argument, sprite
PlayerTank(x, y) ==
  [x |-> x, y |-> y, rx |-> x, ry |-> y, speed |-> PlayerSpeed,
   direction |-> "up", bullet |-> NoBullet,
   lives |-> PlayerLives, respawn_timer |-> 0,
   respawn_duration |-> PlayerInvincibilityDuration, is_invincible |-> FALSE,
   initial_position |-> <<x, y>>]

\* a respawn that also spends a life the player does not have
respawn_NoLivesCheck(p) ==
  [p EXCEPT !.lives = p.lives - 1,
            !.x = p.initial_position[1],
            !.y = p.initial_position[2],
            !.is_invincible = TRUE,
            !.respawn_timer = 0,
            !.direction = "up"]

\* PlayerTank.respawn: x and y are assigned, rect is not
respawn(p) ==
  IF p.lives > 0
  THEN [p EXCEPT !.lives = p.lives - 1,
                 !.x = p.initial_position[1],
                 !.y = p.initial_position[2],
                 !.is_invincible = TRUE,
                 !.respawn_timer = 0,
                 !.direction = "up"]
  ELSE p

\* PlayerTank.shoot: Bullet(bullet_x, bullet_y, self.direction,
\* self.tile_size) puts tile_size in the place of Bullet's parameter
\* owner_type, so the bullet's owner_type is the int 32, written "32"
PlayerTank_shoot(p) ==
  IF ~p.bullet.exists \/ ~p.bullet.active
  THEN [p EXCEPT !.bullet =
          Bullet(p.x + (TILE_SIZE \div 2) - (TILE_SIZE \div 4),
                 p.y + (TILE_SIZE \div 2) - (TILE_SIZE \div 4),
                 p.direction, "32")]
  ELSE p

\* InputHandler.get_movement_direction over the held keys
get_movement_direction(held) ==
  <<(IF "right" \in held THEN 1 ELSE 0) - (IF "left" \in held THEN 1 ELSE 0),
    (IF "down" \in held THEN 1 ELSE 0) - (IF "up" \in held THEN 1 ELSE 0)>>

\* PlayerTank.update(dt, map_rects): the respawn timer, and, unless the tank
\* is still invincible, the direction and the step taken from the input (a
\* step into one of map_rects is not taken), the rect and the bullet
PlayerTank_update(p, held, map_rects) ==
  LET p1 == IF p.is_invincible
            THEN IF p.respawn_timer + 1 >= p.respawn_duration
                 THEN [p EXCEPT !.is_invincible = FALSE, !.respawn_timer = 0]
                 ELSE [p EXCEPT !.respawn_timer = @ + 1]
            ELSE p
      d == get_movement_direction(held)
      dx == d[1]
      dy == d[2]
      p2 == IF dx > 0 THEN [p1 EXCEPT !.direction = "right"]
            ELSE IF dx < 0 THEN [p1 EXCEPT !.direction = "left"]
            ELSE IF dy > 0 THEN [p1 EXCEPT !.direction = "down"]
            ELSE IF dy < 0 THEN [p1 EXCEPT !.direction = "up"]
            ELSE p1
      new_x == p2.x + dx * p2.speed
      new_y == p2.y + dy * p2.speed
      temp_rect == Rect(new_x, new_y, TILE_SIZE, TILE_SIZE)
      collision ==
        \E i \in 1 .. Len(map_rects) : colliderect(temp_rect, map_rects[i])
      p3 == IF collision THEN p2 ELSE [p2 EXCEPT !.x = new_x, !.y = new_y]
      p4 == [p3 EXCEPT !.rx = p3.x, !.ry = p3.y]
  IN  IF p1.is_invincible THEN p1
      ELSE IF p4.bullet.exists
      THEN [p4 EXCEPT !.bullet = Bullet_update(@)]
      ELSE p4

(***************************************************************************)
(* The world the resolver acts on, and the entities behind a reference     *)
(***************************************************************************)
World ==
  [state |-> state, tiles |-> tiles, player |-> player, enemies |-> enemies,
   enemies_to_remove |-> enemies_to_remove]

PlayerRef == <<"tank", 0, 0>>
TankRef(o) == <<"tank", o, 0>>
BulletRef(o) == <<"bullet", o, 0>>
TileRef(c) == <<"tile", c[1], c[2]>>

IsBullet(r) == r[1] = "bullet"
\* isinstance(obj, Tank): EnemyTank is a Tank, PlayerTank is not
IsTank(r) == r[1] = "tank" /\ r[2] >= 1
IsEnemyTank(r) == r[1] = "tank" /\ r[2] >= 1
IsPlayerTank(r) == r[1] = "tank" /\ r[2] = 0
IsTile(r) == r[1] = "tile"
CellOf(r) == <<r[2], r[3]>>

TankAt(W, o) == IF o = 0 THEN W.player ELSE W.enemies[o]
WithTank(W, o, t) ==
  IF o = 0 THEN [W EXCEPT !.player = t] ELSE [W EXCEPT !.enemies[o] = t]
BulletAt(W, o) == TankAt(W, o).bullet
Deactivate(W, o) ==
  WithTank(W, o, [TankAt(W, o) EXCEPT !.bullet.active = FALSE])

RectOf(W, r) ==
  IF IsBullet(r) THEN BulletRect(BulletAt(W, r[2]))
  ELSE IF r[1] = "tank" THEN TankRect(TankAt(W, r[2]))
  ELSE TileRect(CellOf(r))

(***************************************************************************)
(* CollisionManager                                                        *)
(***************************************************************************)
\* a's rect collides with b's rect
Overlap(W, a, b) == colliderect(RectOf(W, a), RectOf(W, b))

\* all pairs <<A[m], B[n]>>, in the order of "for a in A: for b in B"
Product(A, B) ==
  [k \in 1 .. Len(A) * Len(B) |->
     <<A[((k - 1) \div Len(B)) + 1], B[((k - 1) % Len(B)) + 1]>>]

\* "for a in A: for b in B: if a.rect.colliderect(b.rect): queue (a, b)"
Pairs(W, A, B) ==
  SelectSeq(Product(A, B), LAMBDA p : Overlap(W, p[1], p[2]))

\* a pairing of the tanks that reports every overlapping pair in both orders
TankPairs_BothOrders(W, all_tanks) ==
  SelectSeq(Product(all_tanks, all_tanks),
            LAMBDA p : p[1][2] # p[2][2] /\ Overlap(W, p[1], p[2]))

\* "for i, tank_a in enumerate(all_tanks): for tank_b in all_tanks[i + 1:]"
TankPairs(W, all_tanks) ==
  SelectSeq(Product(all_tanks, all_tanks),
            LAMBDA p : p[1][2] < p[2][2] /\ Overlap(W, p[1], p[2]))

\* the pairs of Pairs whose sides belong to different enemies
FriendlyPairs(W, A, B) ==
  SelectSeq(Product(A, B),
            LAMBDA p : p[1][2] # p[2][2] /\ p[1] # p[2]
                       /\ (IsBullet(p[2]) => p[1][2] < p[2][2])
                       /\ Overlap(W, p[1], p[2]))

BulletRefs(owners) == [i \in 1 .. Len(owners) |-> BulletRef(owners[i])]
TileRefs(cells) == [i \in 1 .. Len(cells) |-> TileRef(cells[i])]

\* a detector that also pairs the enemy bullets with the other enemies'
\* tanks and with each other
check_collisions_FriendlyFire(W, player_bullets, enemy_bullets, destructible_tiles, impassable_tiles, player_base) ==
  LET pbs == BulletRefs(player_bullets)
      ebs == BulletRefs(enemy_bullets)
      ets == [i \in 1 .. Len(W.enemies) |-> TankRef(i)]
      all_tanks == <<PlayerRef>> \o ets
      dts == TileRefs(destructible_tiles)
      its == TileRefs(impassable_tiles)
      base == TileRefs(player_base)
  IN  Pairs(W, pbs, ets)
        \o Pairs(W, pbs, dts)
        \o Pairs(W, pbs, ebs)
        \o Pairs(W, pbs, its)
        \o Pairs(W, ebs, base)
        \o Pairs(W, ebs, <<PlayerRef>>)
        \o FriendlyPairs(W, ebs, ets)
        \o FriendlyPairs(W, ebs, ebs)
        \o Pairs(W, ebs, dts)
        \o Pairs(W, ebs, its)
        \o Pairs(W, all_tanks, its)
        \o TankPairs(W, all_tanks)

\* a detector that does not clear the events of the call before
check_collisions_NoClear(W, player_bullets, enemy_bullets, destructible_tiles, impassable_tiles, player_base) ==
  LET pbs == BulletRefs(player_bullets)
      ebs == BulletRefs(enemy_bullets)
      ets == [i \in 1 .. Len(W.enemies) |-> TankRef(i)]
      all_tanks == <<PlayerRef>> \o ets
      dts == TileRefs(destructible_tiles)
      its == TileRefs(impassable_tiles)
      base == TileRefs(player_base)
  IN  events
        \o Pairs(W, pbs, ets)
        \o Pairs(W, pbs, dts)
        \o Pairs(W, pbs, ebs)
        \o Pairs(W, pbs, its)
        \o Pairs(W, ebs, base)
        \o Pairs(W, ebs, <<PlayerRef>>)
        \o Pairs(W, ebs, dts)
        \o Pairs(W, ebs, its)
        \o Pairs(W, all_tanks, its)
        \o TankPairs(W, all_tanks)

\* player_bullets and enemy_bullets are sequences of owners, the tile
\* arguments sequences of cells, player_base a sequence of length 0 or 1
check_collisions(W, player_bullets, enemy_bullets, destructible_tiles, impassable_tiles, player_base) ==
  LET pbs == BulletRefs(player_bullets)
      ebs == BulletRefs(enemy_bullets)
      ets == [i \in 1 .. Len(W.enemies) |-> TankRef(i)]
      all_tanks == <<PlayerRef>> \o ets
      dts == TileRefs(destructible_tiles)
      its == TileRefs(impassable_tiles)
      base == TileRefs(player_base)
  IN  Pairs(W, pbs, ets)
        \o Pairs(W, pbs, dts)
        \o Pairs(W, pbs, ebs)
        \o Pairs(W, pbs, its)
        \o Pairs(W, ebs, base)
        \o Pairs(W, ebs, <<PlayerRef>>)
        \o Pairs(W, ebs, dts)
        \o Pairs(W, ebs, its)
        \o Pairs(W, all_tanks, its)
        \o TankPairs(W, all_tanks)

(***************************************************************************)
(* GameManager._spawn_enemy                                                *)
(***************************************************************************)
SPAWN_POINTS == {<<3, 1>>, <<GRID_WIDTH \div 2, 1>>, <<GRID_WIDTH - 4, 1>>}

\* is the tile-sized footprint at pixel (x, y) blocked
SpawnBlocked(tl, pl, ens, x, y) ==
  LET temp_rect == Rect(x, y, TILE_SIZE, TILE_SIZE)
      map_collidables == get_collidable_tiles(tl)
  IN  \/ \E i \in 1 .. Len(map_collidables) :
           colliderect(temp_rect, TileRect(map_collidables[i]))
      \/ colliderect(temp_rect, TankRect(pl))
      \/ \E i \in 1 .. Len(ens) : colliderect(temp_rect, TankRect(ens[i]))

\* a spawner without the limit on the number of spawns
_spawn_enemy_NoCap(tl, pl, ens, total) ==
  {[enemies |-> ens, total |-> total, ok |-> FALSE,
    raised |-> ~SpawnBlocked(tl, pl, ens, sp[1] * TILE_SIZE,
                             sp[2] * TILE_SIZE)] : sp \in SPAWN_POINTS}

\* the outcomes of one call: the roster, the counter, the returned value and
\* whether the call raised instead of returning.  On a clear footprint
\* EnemyTank(x, y, self.tile_size, self.texture_manager, tank_type="basic")
\* gives EnemyTank's fourth parameter, tank_type, two values: the TypeError
\* leaves the call before the roster and the counter are touched
_spawn_enemy(tl, pl, ens, total) ==
  IF total >= max_enemy_spawns
  THEN {[enemies |-> ens, total |-> total, ok |-> FALSE, raised |-> FALSE]}
  ELSE {[enemies |-> ens, total |-> total, ok |-> FALSE,
         raised |-> ~SpawnBlocked(tl, pl, ens, sp[1] * TILE_SIZE,
                                  sp[2] * TILE_SIZE)] : sp \in SPAWN_POINTS}

(***************************************************************************)
(* GameManager: the collision resolver                                     *)
(***************************************************************************)
\* what a handler leaves: the world, the value it returns, and whether it
\* raised instead of returning
Result(W, processed) == [w |-> W, processed |-> processed, raised |-> FALSE]

Raised(W) == [w |-> W, processed |-> FALSE, raised |-> TRUE]

\* _handle_bullet_collision, branch "Bullet vs Enemy Tank"
BulletVsEnemyTank(W, bullet, other) ==
  LET W1 == Deactivate(W, bullet[2])
      d == take_damage(TankAt(W1, other[2]), 1)
      W2 == WithTank(W1, other[2], d.tank)
  IN  IF d.destroyed
      THEN Result([W2 EXCEPT !.enemies_to_remove = Append(@, other[2])], TRUE)
      ELSE Result(W2, TRUE)

\* a hit that does not ask whether the player is invincible
BulletVsPlayerTank_NoInvincibleCheck(W, bullet, other) ==
  Raised(Deactivate(W, bullet[2]))

\* a hit that ends the game whatever the player's lives
BulletVsPlayerTank_AlwaysGameOver(W, bullet, other) ==
  LET W1 == [Deactivate(W, bullet[2]) EXCEPT !.state = "GAME_OVER"]
  IN  IF ~W1.player.is_invincible
      THEN Raised(W1)
      ELSE Result(W1, TRUE)

\* _handle_bullet_collision, branch "Bullet vs Player Tank": the bullet is
\* deactivated, and for a player that is not invincible other.take_damage()
\* raises AttributeError, PlayerTank having no such method
BulletVsPlayerTank(W, bullet, other) ==
  LET W1 == Deactivate(W, bullet[2])
  IN  IF ~W1.player.is_invincible
      THEN Raised(W1)
      ELSE Result(W1, TRUE)

\* a brick that stops the bullet and stays
BulletVsBrick_BrickStays(W, bullet, c) ==
  Result(Deactivate(W, bullet[2]), TRUE)

\* _handle_bullet_collision, branch "Bullet vs Tile", type BRICK
BulletVsBrick(W, bullet, c) ==
  Result([Deactivate(W, bullet[2]) EXCEPT !.tiles[c] = "EMPTY"], TRUE)

\* a steel tile that breaks like a brick
BulletVsSteel_Breaks(W, bullet, c) ==
  Result([Deactivate(W, bullet[2]) EXCEPT !.tiles[c] = "EMPTY"], TRUE)

\* _handle_bullet_collision, branch "Bullet vs Tile", type STEEL
BulletVsSteel(W, bullet, c) ==
  Result(Deactivate(W, bullet[2]), TRUE)

\* a base that falls without ending the game
BulletVsBase_NoGameOver(W, bullet, c) ==
  Result([Deactivate(W, bullet[2]) EXCEPT !.tiles[c] = "BASE_DESTROYED"],
         TRUE)

\* _handle_bullet_collision, branch "Bullet vs Tile", type BASE
BulletVsBase(W, bullet, c) ==
  Result([Deactivate(W, bullet[2]) EXCEPT
            !.tiles[c] = "BASE_DESTROYED",
            !.state = "GAME_OVER"], TRUE)

\* _handle_bullet_collision, branch "Bullet vs Tile"
BulletVsTile(W, bullet, other) ==
  LET c == CellOf(other)
  IN  IF W.tiles[c] = "BRICK" THEN BulletVsBrick(W, bullet, c)
      ELSE IF W.tiles[c] = "STEEL" THEN BulletVsSteel(W, bullet, c)
      ELSE IF W.tiles[c] = "BASE" THEN BulletVsBase(W, bullet, c)
      ELSE Result(W, FALSE)

\* a meeting of two bullets that stops only the one the loop picked
BulletVsBullet_OnlyFirst(W, bullet, other) ==
  IF bullet # other
  THEN Result(Deactivate(W, bullet[2]), TRUE)
  ELSE Result(W, FALSE)

\* _handle_bullet_collision, branch "Bullet vs Bullet"
BulletVsBullet(W, bullet, other) ==
  IF bullet # other
  THEN Result(Deactivate(Deactivate(W, bullet[2]), other[2]), TRUE)
  ELSE Result(W, FALSE)

\* the dispatch without the early return for an inactive bullet
_handle_bullet_collision_NoActiveCheck(W, bullet, other) ==
  IF IsEnemyTank(other) /\ BulletAt(W, bullet[2]).owner_type = "player"
  THEN BulletVsEnemyTank(W, bullet, other)
  ELSE IF IsPlayerTank(other) /\ BulletAt(W, bullet[2]).owner_type = "enemy"
  THEN BulletVsPlayerTank(W, bullet, other)
  ELSE IF IsTile(other)
  THEN BulletVsTile(W, bullet, other)
  ELSE IF IsBullet(other) /\ BulletAt(W, other[2]).active
  THEN BulletVsBullet(W, bullet, other)
  ELSE Result(W, FALSE)

_handle_bullet_collision(W, bullet, other) ==
  IF ~BulletAt(W, bullet[2]).active THEN Result(W, FALSE)
  ELSE IF IsEnemyTank(other) /\ BulletAt(W, bullet[2]).owner_type = "player"
  THEN BulletVsEnemyTank(W, bullet, other)
  ELSE IF IsPlayerTank(other) /\ BulletAt(W, bullet[2]).owner_type = "enemy"
  THEN BulletVsPlayerTank(W, bullet, other)
  ELSE IF IsTile(other)
  THEN BulletVsTile(W, bullet, other)
  ELSE IF IsBullet(other) /\ BulletAt(W, other[2]).active
  THEN BulletVsBullet(W, bullet, other)
  ELSE Result(W, FALSE)

_handle_tank_tank_collision(W, tank_a, tank_b) ==
  LET W1 == WithTank(W, tank_a[2], revert_move(TankAt(W, tank_a[2]), <<>>))
  IN  WithTank(W1, tank_b[2], revert_move(TankAt(W1, tank_b[2]), <<>>))

\* a handler for which BRICK tiles do not block
_handle_tank_tile_collision_BrickPassable(W, tank, tile) ==
  IF W.tiles[CellOf(tile)] \in {"STEEL", "WATER", "BASE"}
  THEN LET t == revert_move(TankAt(W, tank[2]), <<>>)
       IN  IF IsEnemyTank(tank)
           THEN {Result(WithTank(W, tank[2],
                                 [t EXCEPT !.direction = d,
                                           !.direction_timer = 0]), TRUE) :
                   d \in _change_direction(t.direction)}
           ELSE {Result(WithTank(W, tank[2], t), TRUE)}
  ELSE {Result(W, FALSE)}

\* the outcomes of _handle_tank_tile_collision: an enemy's new direction is
\* drawn by _change_direction
_handle_tank_tile_collision(W, tank, tile) ==
  IF W.tiles[CellOf(tile)] \in {"STEEL", "WATER", "BASE", "BRICK"}
  THEN LET t == revert_move(TankAt(W, tank[2]), <<>>)
       IN  IF IsEnemyTank(tank)
           THEN {Result(WithTank(W, tank[2],
                                 [t EXCEPT !.direction = d,
                                           !.direction_timer = 0]), TRUE) :
                   d \in _change_direction(t.direction)}
           ELSE {Result(WithTank(W, tank[2], t), TRUE)}
  ELSE {Result(W, FALSE)}

\* which bullet of the pair the loop body of _process_collisions picks:
\* <<>> when neither side is a bullet that is not yet processed
PickBullet(obj_a, obj_b, processed) ==
  IF IsBullet(obj_a) /\ obj_a \notin processed THEN <<obj_a, obj_b>>
  ELSE IF IsBullet(obj_b) /\ obj_b \notin processed THEN <<obj_b, obj_a>>
  ELSE <<>>

\* a loop that counts every picked bullet as processed
MarkProcessed_Always(processed, pick, handled) ==
  processed \cup {pick[1]} \cup (IF IsBullet(pick[2]) THEN {pick[2]} ELSE {})

\* processed_bullets after the handler has returned "handled"
MarkProcessed(processed, pick, handled) ==
  IF handled
  THEN processed \cup {pick[1]} \cup (IF IsBullet(pick[2]) THEN {pick[2]} ELSE {})
  ELSE processed

\* the roster after "for enemy in enemies_to_remove: ... remove(enemy)"
RemoveEnemies(ens, to_remove) ==
  LET gone == {to_remove[i] : i \in 1 .. Len(to_remove)}
      keep == SelectSeq([i \in 1 .. Len(ens) |-> i], LAMBDA i : i \notin gone)
  IN  [k \in 1 .. Len(keep) |-> ens[keep[k]]]

SetWorld(W) ==
  /\ state' = W.state
  /\ tiles' = W.tiles
  /\ player' = W.player
  /\ enemies' = W.enemies
  /\ enemies_to_remove' = W.enemies_to_remove

\* the tanks on which the iteration for event ev calls revert_move
RevertCalls(ev) ==
  LET obj_a == ev[1]
      obj_b == ev[2]
      Blocks(tile) == tiles[CellOf(tile)] \in {"STEEL", "WATER", "BASE", "BRICK"}
  IN  IF PickBullet(obj_a, obj_b, processed_bullets) # <<>> THEN {}
      ELSE IF IsTank(obj_a) /\ IsTank(obj_b)
      THEN IF obj_a \notin reverted_tanks \/ obj_b \notin reverted_tanks
           THEN {obj_a, obj_b}
           ELSE {}
      ELSE IF IsTank(obj_a) /\ IsTile(obj_b) /\ obj_a \notin reverted_tanks
      THEN IF Blocks(obj_b) THEN {obj_a} ELSE {}
      ELSE IF IsTank(obj_b) /\ IsTile(obj_a) /\ obj_b \notin reverted_tanks
      THEN IF Blocks(obj_a) THEN {obj_b} ELSE {}
      ELSE {}

\* the outcome of _handle_bullet_collision for event ev, or of no call of it
BulletOutcome(ev) ==
  LET pick == PickBullet(ev[1], ev[2], processed_bullets)
  IN  IF pick = <<>> THEN Result(World, FALSE)
      ELSE _handle_bullet_collision(World, pick[1], pick[2])

\* history: what the event about to be handled meets
Met(ev) ==
  LET Active(r) == IsBullet(r) /\ BulletAt(World, r[2]).active
      TypeOf(r) == IF IsTile(r) THEN tiles[CellOf(r)] ELSE "none"
  IN  [a_active |-> Active(ev[1]), b_active |-> Active(ev[2]),
       a_type |-> TypeOf(ev[1]), b_type |-> TypeOf(ev[2]),
       invincible |-> player.is_invincible, lives |-> player.lives,
       state |-> state, reverted |-> RevertCalls(ev),
       acted |-> BulletOutcome(ev).processed,
       raised |-> BulletOutcome(ev).raised]

\* one iteration of "for obj_a, obj_b in events" in _process_collisions
ResolveEvent ==
  /\ pc = "resolve"
  /\ idx <= Len(events)
  /\ ~BulletOutcome(events[idx]).raised
  /\ LET obj_a == events[idx][1]
         obj_b == events[idx][2]
         pick == PickBullet(obj_a, obj_b, processed_bullets)
     IN  IF pick # <<>>
         THEN LET r == _handle_bullet_collision(World, pick[1], pick[2])
              IN  /\ SetWorld(r.w)
                  /\ processed_bullets' =
                       MarkProcessed(processed_bullets, pick, r.processed)
                  /\ UNCHANGED reverted_tanks
         ELSE IF IsTank(obj_a) /\ IsTank(obj_b)
         THEN IF obj_a \notin reverted_tanks \/ obj_b \notin reverted_tanks
              THEN /\ SetWorld(_handle_tank_tank_collision(World, obj_a, obj_b))
                   /\ reverted_tanks' = reverted_tanks \cup {obj_a, obj_b}
                   /\ UNCHANGED processed_bullets
              ELSE UNCHANGED <<state, tiles, player, enemies, enemies_to_remove,
                               processed_bullets, reverted_tanks>>
         ELSE IF IsTank(obj_a) /\ IsTile(obj_b) /\ obj_a \notin reverted_tanks
         THEN \E r \in _handle_tank_tile_collision(World, obj_a, obj_b) :
                /\ SetWorld(r.w)
                /\ reverted_tanks' =
                     IF r.processed THEN reverted_tanks \cup {obj_a}
                     ELSE reverted_tanks
                /\ UNCHANGED processed_bullets
         ELSE IF IsTank(obj_b) /\ IsTile(obj_a) /\ obj_b \notin reverted_tanks
         THEN \E r \in _handle_tank_tile_collision(World, obj_b, obj_a) :
                /\ SetWorld(r.w)
                /\ reverted_tanks' =
                     IF r.processed THEN reverted_tanks \cup {obj_b}
                     ELSE reverted_tanks
                /\ UNCHANGED processed_bullets
         ELSE UNCHANGED <<state, tiles, player, enemies, enemies_to_remove,
                          processed_bullets, reverted_tanks>>
  /\ idx' = idx + 1
  /\ log' = Append(log, Met(events[idx]))
  /\ UNCHANGED <<total_enemy_spawns, spawn_timer, keys, events, pc,
                 frames, pre>>
  /\ UNCHANGED <<loop, inputs, call>>

\* the iteration in which _handle_bullet_collision raises: the exception
\* leaves _process_collisions with the bullet spent, the rest of the batch
\* unhandled and the enemies queued for removal still in the roster
ResolveRaises ==
  /\ pc = "resolve"
  /\ idx <= Len(events)
  /\ BulletOutcome(events[idx]).raised
  /\ SetWorld(BulletOutcome(events[idx]).w)
  /\ pc' = "raised"
  /\ log' = Append(log, Met(events[idx]))
  /\ UNCHANGED <<total_enemy_spawns, spawn_timer, keys, events, idx,
                 processed_bullets, reverted_tanks, frames, pre>>
  /\ UNCHANGED <<loop, inputs, call>>

\* the end of _process_collisions: the destroyed enemies leave the roster
ProcessEnd ==
  /\ pc = "resolve"
  /\ idx > Len(events)
  /\ enemies' = RemoveEnemies(enemies, enemies_to_remove)
  /\ enemies_to_remove' = <<>>
  /\ processed_bullets' = {}
  /\ reverted_tanks' = {}
  /\ pc' = "idle"
  /\ UNCHANGED <<state, tiles, player, total_enemy_spawns, spawn_timer, keys,
                 events, idx, frames, pre, log>>
  /\ UNCHANGED <<loop, inputs, call>>

(***************************************************************************)
(* GameManager.update                                                      *)
(***************************************************************************)
ActiveBulletOwners(ens) ==
  SelectSeq([i \in 1 .. Len(ens) |-> i],
            LAMBDA i : ens[i].bullet.exists /\ ens[i].bullet.active)

\* where run() stands once its call of update() has returned: at render(),
\* clock.tick() and the test of the state that follows them
AfterUpdate == IF loop = "update" THEN "render" ELSE loop

\* an update() that lets the spawn timer run in a state other than RUNNING
UpdateSkip_TimerRuns ==
  /\ pc = "idle"
  /\ loop \in {"off", "update"}
  /\ state # "RUNNING"
  /\ frames < MaxFrames
  /\ frames' = frames + 1
  /\ spawn_timer' = spawn_timer + 1
  /\ UNCHANGED <<state, tiles, player, enemies, total_enemy_spawns,
                 keys, events, pc, idx,
                 processed_bullets, reverted_tanks, enemies_to_remove, pre,
                 log>>
  /\ loop' = AfterUpdate
  /\ UNCHANGED <<inputs, call>>

\* an update() that goes on to its victory check in GAME_OVER
UpdateSkip_VictoryCheck ==
  /\ pc = "idle"
  /\ loop \in {"off", "update"}
  /\ state # "RUNNING"
  /\ frames < MaxFrames
  /\ frames' = frames + 1
  /\ state' = IF /\ state = "GAME_OVER"
                 /\ enemies = <<>>
                 /\ total_enemy_spawns >= max_enemy_spawns
              THEN "VICTORY" ELSE state
  /\ UNCHANGED <<tiles, player, enemies, total_enemy_spawns,
                 spawn_timer, keys, events, pc, idx,
                 processed_bullets, reverted_tanks, enemies_to_remove, pre,
                 log>>
  /\ loop' = AfterUpdate
  /\ UNCHANGED <<inputs, call>>

\* update() in a state other than RUNNING returns at once
UpdateSkip ==
  /\ pc = "idle"
  /\ loop \in {"off", "update"}
  /\ state # "RUNNING"
  /\ frames < MaxFrames
  /\ frames' = frames + 1
  /\ UNCHANGED <<state, tiles, player, enemies, total_enemy_spawns,
                 spawn_timer, keys, events, pc, idx,
                 processed_bullets, reverted_tanks, enemies_to_remove, pre,
                 log>>
  /\ loop' = AfterUpdate
  /\ UNCHANGED <<inputs, call>>

\* update() in state RUNNING: the lists for the detector are read, the map
\* animates, and self.player_tank.update(dt) raises TypeError, as
\* PlayerTank.update requires map_rects.  Nothing catches it: the enemies'
\* updates, the spawn timer, the detector, the resolver and the victory
\* check of that update() do not run
UpdateRaises ==
  /\ pc = "idle"
  /\ loop \in {"off", "update"}
  /\ state = "RUNNING"
  /\ frames < MaxFrames
  /\ pc' = "raised"
  /\ frames' = frames + 1
  /\ UNCHANGED <<state, tiles, player, enemies, total_enemy_spawns,
                 spawn_timer, keys, events, idx, processed_bullets,
                 reverted_tanks, enemies_to_remove, pre, log>>
  /\ UNCHANGED <<loop, inputs, call>>

(***************************************************************************)
(* The methods update() would call, called one by one on a game whose      *)
(* entities have been placed: the detector with the arguments update()     *)
(* prepares, the resolver, the spawner, and the player's own methods.      *)
(***************************************************************************)
\* the record of call number call.n + 1
Called(target, op, args, ret, raised) ==
  [n |-> call.n + 1, target |-> target, op |-> op, args |-> args,
   ret |-> ret, raised |-> raised]

\* the report of check_collisions for the lists update() builds from W
Report(W) ==
  check_collisions(W,
                   IF W.player.bullet.exists /\ W.player.bullet.active
                   THEN <<0>> ELSE <<>>,
                   ActiveBulletOwners(W.enemies),
                   get_tiles_by_type(W.tiles, {"BRICK"}),
                   get_tiles_by_type(W.tiles,
                                     {"STEEL", "WATER", "BASE", "BRICK"}),
                   get_base(W.tiles))

\* collision_manager.check_collisions(...)
CallCheckCollisions ==
  /\ pc = "idle"
  /\ loop = "off"
  /\ call.n < MaxCalls
  /\ log' = <<>>
  /\ events' = Report(World)
  /\ call' = Called(0, "check_collisions", <<>>, FALSE, FALSE)
  /\ UNCHANGED <<state, tiles, player, enemies, total_enemy_spawns,
                 spawn_timer, keys, pc, idx, processed_bullets,
                 reverted_tanks, enemies_to_remove, frames, pre>>
  /\ UNCHANGED <<loop, inputs>>

\* _process_collisions() up to its loop, called as update() calls it, after
\* check_collisions: the batch is the detector's report, the three locals
\* are empty
CallProcessCollisions ==
  /\ pc = "idle"
  /\ loop = "off"
  /\ call.n < MaxCalls
  /\ call.op = "check_collisions"
  /\ pc' = "resolve"
  /\ idx' = 1
  /\ processed_bullets' = {}
  /\ reverted_tanks' = {}
  /\ enemies_to_remove' = <<>>
  /\ pre' = World
  /\ log' = <<>>
  /\ call' = Called(0, "_process_collisions", <<>>, FALSE, FALSE)
  /\ UNCHANGED <<state, tiles, player, enemies, total_enemy_spawns,
                 spawn_timer, keys, events, frames>>
  /\ UNCHANGED <<loop, inputs>>

\* _spawn_enemy()
CallSpawnEnemy ==
  /\ pc = "idle"
  /\ loop = "off"
  /\ call.n < MaxCalls
  /\ log' = <<>>
  /\ \E sp \in _spawn_enemy(tiles, player, enemies, total_enemy_spawns) :
       /\ enemies' = sp.enemies
       /\ total_enemy_spawns' = sp.total
       /\ call' = Called(0, "_spawn_enemy", <<>>, sp.ok, sp.raised)
  /\ UNCHANGED <<state, tiles, player, spawn_timer, keys, events, pc, idx,
                 processed_bullets, reverted_tanks, enemies_to_remove,
                 frames, pre>>
  /\ UNCHANGED <<loop, inputs>>

\* player_tank.respawn()
CallRespawn ==
  /\ pc = "idle"
  /\ loop = "off"
  /\ call.n < MaxCalls
  /\ log' = <<>>
  /\ player' = respawn(player)
  /\ call' = Called(0, "respawn", <<>>, FALSE, FALSE)
  /\ UNCHANGED <<state, tiles, enemies, total_enemy_spawns, spawn_timer,
                 keys, events, pc, idx, processed_bullets, reverted_tanks,
                 enemies_to_remove, frames, pre>>
  /\ UNCHANGED <<loop, inputs>>

\* the rects of Map.get_collidable_tiles()
CollidableRects(tl) ==
  LET collidable == get_collidable_tiles(tl)
  IN  [i \in 1 .. Len(collidable) |-> TileRect(collidable[i])]

\* player_tank.update(dt, map_rects) with the collidable tiles of the map
CallPlayerUpdate ==
  /\ pc = "idle"
  /\ loop = "off"
  /\ call.n < MaxCalls
  /\ log' = <<>>
  /\ player' = PlayerTank_update(player, keys, CollidableRects(tiles))
  /\ call' = Called(0, "PlayerTank.update", <<>>, FALSE, FALSE)
  /\ UNCHANGED <<state, tiles, enemies, total_enemy_spawns, spawn_timer,
                 keys, events, pc, idx, processed_bullets, reverted_tanks,
                 enemies_to_remove, frames, pre>>
  /\ UNCHANGED <<loop, inputs>>

(***************************************************************************)
(* Initial states.  GameManager() itself raises (its _spawn_enemy call     *)
(* does), so no game is left by the constructor: InitFresh holds the       *)
(* fields _reset_game has assigned when _spawn_enemy is called, and the    *)
(* other families are games set up the way the tests set them up: tanks    *)
(* and bullets placed on the map, tile types assigned, the tanks that have *)
(* just moved keeping their previous position in prev_x, prev_y.           *)
(***************************************************************************)
\* a bullet in flight, as update() has left it
BulletAtPos(x, y, direction, owner_type) == Bullet(x, y, direction, owner_type)

\* an EnemyTank(x, y, tile_size, tank_type) put at (x, y)
EnemyWith(id, x, y, tank_type, direction, bullet, move_timer) ==
  [EnemyTank(x, y, tank_type, direction, id) EXCEPT
     !.x = x, !.y = y, !.rx = x, !.ry = y, !.prev_x = x, !.prev_y = y,
     !.bullet = bullet, !.move_timer = move_timer,
     !.direction_timer = 10, !.shoot_timer = 10]

\* the enemy e as an accepted move to (x, y) leaves it
MovedTo(e, x, y) ==
  [e EXCEPT !.x = x, !.y = y, !.rx = x, !.ry = y, !.move_timer = 0]

\* a PlayerTank built at the start position and put at (x, y)
PlayerWith(x, y, direction, lives, is_invincible, bullet) ==
  [PlayerTank(PlayerStartX, PlayerStartY) EXCEPT
     !.x = x, !.y = y, !.rx = x, !.ry = y, !.direction = direction,
     !.lives = lives, !.is_invincible = is_invincible, !.bullet = bullet]

\* the owner_type of a bullet held by the player: "32" when PlayerTank.shoot
\* has fired it, "player" when it was built with that owner and assigned
PlayerBulletOwners == {"player", "32"}

\* the cell above the player's start cell, whose type the scenarios vary
VarCell == <<(GRID_WIDTH \div 2) - 1, GRID_HEIGHT - 3>>

InitCommon ==
  /\ state = "RUNNING"
  /\ events = <<>>
  /\ pc = "idle"
  /\ idx = 1
  /\ processed_bullets = {}
  /\ reverted_tanks = {}
  /\ enemies_to_remove = <<>>
  /\ frames = 0
  /\ pre = World
  /\ log = <<>>

\* the fields of _reset_game at its call of _spawn_enemy
InitFresh ==
  /\ tiles = _create_test_map
  /\ player = PlayerTank(PlayerStartX, PlayerStartY)
  /\ enemies = <<>>
  /\ total_enemy_spawns = 0
  /\ spawn_timer = 0
  /\ keys \in {{}, {"left"}}
  /\ InitCommon

\* the player at its start cell, one enemy that has moved down towards it,
\* bullets in the lane between them: the player's on the enemy, the enemy's
\* on the player's bullet or on the player
InitLane ==
  /\ tiles = _create_test_map
  /\ \E lv \in {<<3, FALSE>>, <<1, FALSE>>, <<1, TRUE>>},
        pb \in {NoBullet} \cup {BulletAtPos(236, 418, "up", ow) :
                                 ow \in PlayerBulletOwners} :
       player = PlayerWith(PlayerStartX, PlayerStartY, "up", lv[1], lv[2], pb)
  /\ \E tt \in TankTypes,
        eb \in {NoBullet, BulletAtPos(234, 419, "down", "enemy"),
                BulletAtPos(234, 443, "down", "enemy")} :
       enemies = <<MovedTo(EnemyWith(1, 222, 383, tt, "down", eb, 0),
                           222, 392)>>
  /\ total_enemy_spawns = max_enemy_spawns
  /\ spawn_timer = 20
  /\ keys = {}
  /\ InitCommon

\* the same lane with a tile of any type between the two tanks, the bullets
\* on that tile, the enemy moved onto it or not
InitTile ==
  /\ \E ty \in TileTypes \ {"BASE", "BASE_DESTROYED"} :
       tiles = [_create_test_map EXCEPT ![VarCell] = ty]
  /\ \E pb \in {NoBullet, BulletAtPos(236, 442, "up", "32")} :
       player = PlayerWith(PlayerStartX, PlayerStartY, "up", 3, FALSE, pb)
  /\ \E eb \in {NoBullet, BulletAtPos(234, 413, "down", "enemy"),
                BulletAtPos(234, 443, "down", "enemy")},
        y \in {383, 392} :
       enemies = <<MovedTo(EnemyWith(1, 222, 383, "basic", "down", eb, 0),
                           222, y)>>
  /\ total_enemy_spawns = 1
  /\ spawn_timer = 20
  /\ keys = {}
  /\ InitCommon

\* bullets on the base tile, apart or on each other as well
InitBase ==
  /\ tiles = _create_test_map
  /\ \/ /\ \E pb \in {NoBullet} \cup {BulletAtPos(254, 460, "right", ow) :
                                       ow \in PlayerBulletOwners} :
             player = PlayerWith(PlayerStartX, PlayerStartY, "right", 3,
                                 FALSE, pb)
        /\ \E eb \in {NoBullet, BulletAtPos(268, 443, "down", "enemy")} :
             enemies = <<EnemyWith(1, 256, 383, "basic", "down", eb, 2)>>
     \/ /\ player = PlayerWith(PlayerStartX, PlayerStartY - 24, "right", 3,
                               FALSE,
                               BulletAtPos(262, 444, "right", "32"))
        /\ enemies = <<EnemyWith(1, 256, 401, "basic", "down",
                                 BulletAtPos(268, 443, "down", "enemy"), 2)>>
  /\ total_enemy_spawns = 1
  /\ spawn_timer = 20
  /\ keys = {}
  /\ InitCommon

\* two enemies that have moved into each other in the spawn row, their
\* bullets crossing, the player's bullet on the second
InitFriendly ==
  /\ tiles = _create_test_map
  /\ \E pb \in {NoBullet, BulletAtPos(152, 70, "up", "player")} :
       player = PlayerWith(140, 100, "up", 3, FALSE, pb)
  /\ \E b1 \in {NoBullet, BulletAtPos(138, 53, "right", "enemy")},
        b2 \in {NoBullet, BulletAtPos(141, 53, "left", "enemy")} :
       enemies = <<MovedTo(EnemyWith(1, 96, 41, "basic", "right", b1, 0),
                           105, 41),
                   MovedTo(EnemyWith(2, 141, 41, "basic", "left", b2, 0),
                           132, 41)>>
  /\ total_enemy_spawns = 2
  /\ spawn_timer = 20
  /\ keys = {}
  /\ InitCommon

\* two enemy bullets on the player
InitDouble ==
  /\ tiles = _create_test_map
  /\ \E lv \in {1, 3}, inv \in BOOLEAN :
       player = PlayerWith(PlayerStartX, PlayerStartY, "up", lv, inv,
                           NoBullet)
  /\ enemies = <<EnemyWith(1, 222, 383, "basic", "down",
                           BulletAtPos(234, 443, "down", "enemy"), 2),
                 EnemyWith(2, 177, 446, "basic", "right",
                           BulletAtPos(219, 458, "right", "enemy"), 2)>>
  /\ total_enemy_spawns = 2
  /\ spawn_timer = 20
  /\ keys = {}
  /\ InitCommon

\* one enemy on the left spawn point, the counter below the cap or at it
InitSpawn ==
  /\ tiles = _create_test_map
  /\ player = PlayerTank(PlayerStartX, PlayerStartY)
  /\ enemies = <<EnemyWith(1, 96, 41, "basic", "down", NoBullet, 2)>>
  /\ total_enemy_spawns \in {1, max_enemy_spawns}
  /\ spawn_timer = spawn_interval - 1
  /\ keys = {}
  /\ InitCommon

\* the bullet PlayerTank.shoot builds on the tile above the player's start
\* cell, the player invincible or not, holding no key or the key towards
\* that tile
InitShot ==
  /\ \E ty \in {"BRICK", "STEEL", "WATER", "EMPTY"} :
       tiles = [_create_test_map EXCEPT ![VarCell] = ty]
  /\ \E inv \in BOOLEAN :
       player = PlayerWith(PlayerStartX, PlayerStartY, "up", 3, inv,
                           BulletAtPos(236, 442, "up", "32"))
  /\ keys \in {{}, {"up"}}
  /\ enemies = <<EnemyWith(1, 96, 41, "basic", "down", NoBullet, 2)>>
  /\ total_enemy_spawns = 1
  /\ spawn_timer = 20
  /\ InitCommon

\* every spawn point occupied: the left one by an enemy, the middle one by
\* the player, the right one by a brick
InitSpawnBlocked ==
  /\ tiles = [_create_test_map EXCEPT ![<<GRID_WIDTH - 4, 1>>] = "BRICK"]
  /\ player = PlayerWith((GRID_WIDTH \div 2) * TILE_SIZE, TILE_SIZE + 8,
                         "up", 3, FALSE, NoBullet)
  /\ enemies = <<EnemyWith(1, 96, 41, "basic", "down", NoBullet, 2)>>
  /\ total_enemy_spawns = 1
  /\ spawn_timer = spawn_interval - 1
  /\ keys = {}
  /\ InitCommon

\* a bullet built for the player on the only enemy of the map while the
\* spawner has one enemy left to spawn
InitLast ==
  /\ tiles = _create_test_map
  /\ player = PlayerWith(PlayerStartX, PlayerStartY, "up", 3, FALSE,
                         BulletAtPos(236, 412, "up", "player"))
  /\ enemies = <<EnemyWith(1, 222, 383, "basic", "down", NoBullet, 2)>>
  /\ total_enemy_spawns = max_enemy_spawns - 1
  /\ spawn_timer = 20
  /\ keys = {}
  /\ InitCommon

\* an enemy that has moved down into the steel border and a second one that
\* has moved right into the first
InitSqueeze ==
  /\ tiles = _create_test_map
  /\ player = PlayerWith(PlayerStartX, PlayerStartY, "up", 3, FALSE, NoBullet)
  /\ keys = {}
  /\ enemies = <<MovedTo(EnemyWith(1, 186, 446, "basic", "down", NoBullet, 0),
                         186, 455),
                 MovedTo(EnemyWith(2, 151, 440, "basic", "right", NoBullet,
                                   0), 160, 440)>>
  /\ total_enemy_spawns = 2
  /\ spawn_timer = 20
  /\ InitCommon

\* an enemy that has moved down into the player
InitRam ==
  /\ tiles = _create_test_map
  /\ \E inv \in BOOLEAN :
       player = PlayerWith(PlayerStartX, PlayerStartY, "up", 3, inv,
                           NoBullet)
  /\ keys = {}
  /\ \E tt \in TankTypes :
       enemies = <<MovedTo(EnemyWith(1, 222, 410, tt, "down", NoBullet, 0),
                           222, 410 + TypeSpeed(tt))>>
  /\ total_enemy_spawns = 1
  /\ spawn_timer = 20
  /\ InitCommon

\* the endgame: the cap reached, a bullet built for the player on the only
\* enemy, that enemy's bullet on the base
InitEndgame ==
  /\ tiles = _create_test_map
  /\ player = PlayerWith(PlayerStartX - 24, PlayerStartY - 60, "right", 3,
                         FALSE, BulletAtPos(254, 400, "right", "player"))
  /\ enemies = <<EnemyWith(1, 256, 383, "basic", "down",
                           BulletAtPos(268, 443, "down", "enemy"), 2)>>
  /\ total_enemy_spawns = max_enemy_spawns
  /\ spawn_timer = 20
  /\ keys = {}
  /\ InitCommon

\* the player sixty pixels above its start position, an enemy standing on
\* the start position, that enemy's bullet on the player
InitRespawn ==
  /\ tiles = _create_test_map
  /\ \E lv \in {1, 3}, inv \in BOOLEAN :
       player = PlayerWith(PlayerStartX, PlayerStartY - 60, "left", lv, inv,
                           NoBullet)
  /\ enemies = <<EnemyWith(1, 222, 446, "basic", "up",
                           BulletAtPos(234, 416, "up", "enemy"), 2)>>
  /\ total_enemy_spawns = 1
  /\ spawn_timer = 20
  /\ keys = {}
  /\ InitCommon

Init ==
  /\ \/ InitFresh
     \/ InitLast
     \/ InitSpawnBlocked
     \/ InitShot
     \/ InitSqueeze
     \/ InitRam
     \/ InitEndgame
     \/ InitRespawn
     \/ InitLane
     \/ InitTile
     \/ InitBase
     \/ InitFriendly
     \/ InitDouble
     \/ InitSpawn
  /\ loop = "off"
  /\ inputs = NoInputs
  /\ call = NoCall

Next ==
  \/ UpdateSkip
  \/ UpdateRaises
  \/ CallCheckCollisions
  \/ CallProcessCollisions
  \/ ResolveEvent
  \/ ResolveRaises
  \/ ProcessEnd
  \/ CallSpawnEnemy
  \/ CallRespawn
  \/ CallPlayerUpdate

Spec == Init /\ [][Next]_vars

TypeOK ==
  /\ state \in GameStates
  /\ pc \in {"idle", "resolve", "raised"}
  /\ loop \in {"off", "events", "update", "render"}
  /\ inputs.n \in 0 .. MaxInputs
  /\ \A c \in Cells : tiles[c] \in TileTypes
  /\ total_enemy_spawns \in 0 .. max_enemy_spawns
  /\ pc = "resolve" => idx \in 1 .. Len(events) + 1

(***************************************************************************)
(* The resolver on its own: _process_collisions called with a batch the    *)
(* collision manager is made to return, as the unit tests of the resolver  *)
(* do.  The batch is drawn from the pairs below, the world from the        *)
(* states of the player, one enemy and their bullets.                      *)
(***************************************************************************)
MaxBatch == 2

BatchEvents ==
  {<<BulletRef(0), TankRef(1)>>, <<BulletRef(1), PlayerRef>>,
   <<BulletRef(0), TileRef(VarCell)>>, <<BulletRef(1), TileRef(VarCell)>>,
   <<BulletRef(0), TileRef(BaseCell)>>, <<BulletRef(1), TileRef(BaseCell)>>,
   <<BulletRef(0), BulletRef(1)>>,
   <<PlayerRef, TankRef(1)>>, <<TankRef(1), TileRef(VarCell)>>}

Batches == UNION {[1 .. n -> BatchEvents] : n \in 1 .. MaxBatch}

InitResolve ==
  /\ \E vt \in TileTypes \ {"BASE", "BASE_DESTROYED"} :
       tiles = [_create_test_map EXCEPT ![VarCell] = vt]
  /\ \E li \in {<<3, FALSE>>, <<1, TRUE>>}, pa \in BOOLEAN :
       player = PlayerWith(PlayerStartX, PlayerStartY, "up", li[1], li[2],
                           [BulletAtPos(236, 430, "up", "player")
                              EXCEPT !.active = pa])
  /\ \E ea \in BOOLEAN :
       enemies = <<MovedTo(EnemyWith(1, 222, 383, "basic", "down",
                                     [BulletAtPos(234, 413, "down", "enemy")
                                        EXCEPT !.active = ea], 0),
                           222, 392)>>
  /\ total_enemy_spawns = max_enemy_spawns
  /\ spawn_timer = 20
  /\ keys = {}
  /\ state = "RUNNING"
  /\ events \in Batches
  /\ pc = "resolve"
  /\ idx = 1
  /\ processed_bullets = {}
  /\ reverted_tanks = {}
  /\ enemies_to_remove = <<>>
  /\ frames = 0
  /\ pre = World
  /\ log = <<>>
  /\ loop = "off"
  /\ inputs = NoInputs
  /\ call = [NoCall EXCEPT !.n = 1, !.op = "_process_collisions"]

NextResolve == ResolveEvent \/ ResolveRaises \/ ProcessEnd

SpecResolve == InitResolve /\ [][NextResolve]_vars

(***************************************************************************)
(* GameManager.run: handle_events, update, and the test that ends the      *)
(* loop.  An input event is a record of its pygame type and key.           *)
(***************************************************************************)
Event(type, key) == [type |-> type, key |-> key]

\* the events pygame.event.get() is taken to return
InputEvents ==
  {Event("QUIT", "none"), Event("KEYDOWN", "K_ESCAPE"), Event("KEYDOWN", "K_r"),
   Event("KEYDOWN", "K_LEFT"), Event("KEYDOWN", "K_SPACE")}

\* InputHandler.key_mappings
key_mappings ==
  [k \in {"K_UP", "K_DOWN", "K_LEFT", "K_RIGHT"} |->
     CASE k = "K_UP" -> "up" [] k = "K_DOWN" -> "down"
       [] k = "K_LEFT" -> "left" [] k = "K_RIGHT" -> "right"]

\* InputHandler.handle_event: the held directions after the event
InputHandler_handle_event(held, event) ==
  IF event.key \notin DOMAIN key_mappings THEN held
  ELSE IF event.type = "KEYDOWN" THEN held \cup {key_mappings[event.key]}
  ELSE IF event.type = "KEYUP" THEN held \ {key_mappings[event.key]}
  ELSE held

\* PlayerTank.handle_event: the player and the held directions afterwards
PlayerTank_handle_event(p, held, event) ==
  IF ~p.is_invincible
  THEN [player |-> IF event.type = "KEYDOWN" /\ event.key = "K_SPACE"
                   THEN PlayerTank_shoot(p) ELSE p,
        keys |-> InputHandler_handle_event(held, event)]
  ELSE [player |-> p, keys |-> held]

\* what handle_events reads and writes, and whether an exception has left it
Game ==
  [state |-> state, tiles |-> tiles, player |-> player, enemies |-> enemies,
   total_enemy_spawns |-> total_enemy_spawns, spawn_timer |-> spawn_timer,
   keys |-> keys, events |-> events, raised |-> FALSE]

\* _quit_game: GameState has no member EXIT, so "self.state =
\* GameState.EXIT" raises AttributeError and assigns nothing
_quit_game(G) == [G EXCEPT !.raised = TRUE]

\* the games _reset_game can leave: a new map, player, input handler and
\* collision manager, and the initial call of _spawn_enemy, whose TypeError
\* ends _reset_game before the fonts are assigned
_reset_game ==
  {[state |-> "RUNNING", tiles |-> _create_test_map,
    player |-> PlayerTank(PlayerStartX, PlayerStartY),
    enemies |-> sp.enemies, total_enemy_spawns |-> sp.total,
    spawn_timer |-> 0, keys |-> {}, events |-> <<>>, raised |-> sp.raised] :
     sp \in _spawn_enemy(_create_test_map,
                         PlayerTank(PlayerStartX, PlayerStartY), <<>>, 0)}

\* the games one iteration of "for event in pygame.event.get()" can leave
handle_event(G, event) ==
  LET After ==
        IF event.type = "QUIT" THEN {_quit_game(G)}
        ELSE IF event.type = "KEYDOWN" /\ event.key = "K_ESCAPE"
        THEN {_quit_game(G)}
        ELSE IF /\ event.type = "KEYDOWN"
                /\ event.key = "K_r"
                /\ G.state # "RUNNING"
        THEN _reset_game
        ELSE {G}
      ToPlayer(H) ==
        IF ~H.raised /\ H.state = "RUNNING"
        THEN LET r == PlayerTank_handle_event(H.player, H.keys, event)
             IN  [H EXCEPT !.player = r.player, !.keys = r.keys]
        ELSE H
  IN  {ToPlayer(H) : H \in After}

SetGame(G) ==
  /\ state' = G.state
  /\ tiles' = G.tiles
  /\ player' = G.player
  /\ enemies' = G.enemies
  /\ total_enemy_spawns' = G.total_enemy_spawns
  /\ spawn_timer' = G.spawn_timer
  /\ keys' = G.keys
  /\ events' = G.events

\* handle_events: one event of the batch
HandleEvent ==
  /\ loop = "events"
  /\ pc = "idle"
  /\ inputs.n < MaxInputs
  /\ \E event \in InputEvents :
       \E G \in {H \in handle_event(Game, event) : ~H.raised} :
         /\ SetGame(G)
         /\ inputs' = [n |-> inputs.n + 1, last |-> event]
  /\ UNCHANGED <<pc, idx, processed_bullets, reverted_tanks,
                 enemies_to_remove, frames, pre, log, loop, call>>

\* handle_events left by an exception that nothing catches: the
\* AttributeError of _quit_game, which has assigned nothing, or the TypeError
\* of _reset_game, after which the fields assigned before the call of
\* _spawn_enemy are those of a new game.  The events that follow in the
\* batch are not handled
HandleEventRaises ==
  /\ loop = "events"
  /\ pc = "idle"
  /\ inputs.n < MaxInputs
  /\ \E event \in InputEvents :
       \E G \in {H \in handle_event(Game, event) : H.raised} :
         /\ SetGame(G)
         /\ inputs' = [n |-> inputs.n + 1, last |-> event]
  /\ pc' = "raised"
  /\ UNCHANGED <<idx, processed_bullets, reverted_tanks,
                 enemies_to_remove, frames, pre, log, loop, call>>

\* handle_events returns: the batch is exhausted
HandleEventsEnd ==
  /\ loop = "events"
  /\ pc = "idle"
  /\ frames < MaxFrames
  /\ loop' = "update"
  /\ UNCHANGED <<state, tiles, player, enemies, total_enemy_spawns,
                 spawn_timer, keys, events, pc, idx,
                 processed_bullets, reverted_tanks, enemies_to_remove,
                 frames, pre, log, inputs, call>>

\* a game that has ended: the base destroyed, the player without lives, or
\* every enemy of the cap destroyed
InitEnded ==
  /\ \/ /\ state = "GAME_OVER"
        /\ tiles = [_create_test_map EXCEPT ![BaseCell] = "BASE_DESTROYED"]
        /\ player = PlayerWith(PlayerStartX, PlayerStartY - 60, "left", 2,
                               FALSE, NoBullet)
        /\ enemies = <<EnemyWith(1, 256, 383, "basic", "down",
                                 [BulletAtPos(268, 443, "down", "enemy")
                                    EXCEPT !.active = FALSE], 2)>>
        /\ total_enemy_spawns = 3
     \/ /\ state = "GAME_OVER"
        /\ tiles = _create_test_map
        /\ player = PlayerWith(PlayerStartX, PlayerStartY, "up", 0, FALSE,
                               NoBullet)
        /\ enemies = <<EnemyWith(1, 222, 383, "basic", "down", NoBullet, 2)>>
        /\ total_enemy_spawns = max_enemy_spawns
     \/ /\ state = "VICTORY"
        /\ tiles = _create_test_map
        /\ player = PlayerWith(PlayerStartX, PlayerStartY - 60, "left", 1,
                               FALSE, NoBullet)
        /\ enemies = <<>>
        /\ total_enemy_spawns = max_enemy_spawns
  /\ spawn_timer = 20
  /\ events = <<>>
  /\ pc = "idle"
  /\ idx = 1
  /\ processed_bullets = {}
  /\ reverted_tanks = {}
  /\ enemies_to_remove = <<>>
  /\ frames = 0
  /\ pre = World
  /\ log = <<>>

\* run() entered on a game set up as above, no key held
InitRun ==
  /\ InitFresh \/ InitSpawn \/ InitDouble \/ InitEnded
  /\ keys = {}
  /\ loop = "events"
  /\ inputs = NoInputs
  /\ call = NoCall

\* run() after update() has returned: render() and clock.tick() change no
\* field of the game, and the test "self.state == GameState.EXIT" raises
\* AttributeError, GameState having no member EXIT
RunRaises ==
  /\ loop = "render"
  /\ pc = "idle"
  /\ pc' = "raised"
  /\ UNCHANGED <<state, tiles, player, enemies, total_enemy_spawns,
                 spawn_timer, keys, events, idx, processed_bullets,
                 reverted_tanks, enemies_to_remove, frames, pre, log, loop,
                 inputs, call>>

NextRun ==
  \/ HandleEvent
  \/ HandleEventRaises
  \/ HandleEventsEnd
  \/ UpdateSkip
  \/ UpdateRaises
  \/ RunRaises

SpecRun == InitRun /\ [][NextRun]_vars

(***************************************************************************)
(* The methods of a tank called directly, as the unit tests call them:     *)
(* shoot, take_damage, _move, update, and the assignment                   *)
(* "bullet.active = False" by which the resolver spends a bullet.  The     *)
(* tank is a Tank or an EnemyTank, held at position 1 of the roster.       *)
(***************************************************************************)
\* the (dx, dy) passed to _move
MoveArgs == {<<0, 0>>, <<1, 0>>, <<0, -1>>, <<1, 1>>}

\* the bullets a tank at (x, y) may hold before the calls: none, one in
\* flight, one a step away from the edge of the playfield, a spent one
TankBullets(x, y, owner_type) ==
  {NoBullet,
   BulletAtPos(x + 12, y - 20, "up", owner_type),
   BulletAtPos(x + 12, 4, "up", owner_type),
   [BulletAtPos(x + 12, y - 20, "up", owner_type) EXCEPT !.active = FALSE]}

\* the values of invincibility_timer the calls start from: 0, and for an
\* invincible tank two updates short of the duration
InvincibilityTimers(inv) ==
  IF inv THEN {0, PlayerInvincibilityDuration - 2} ELSE {0}

\* isinstance(t, EnemyTank) for the tanks of the roster
IsEnemyTankObject(t) == "tank_type" \in DOMAIN t

\* a Tank built as tests/core/test_tank.py builds it, its invincibility
\* assigned as that test assigns it (is_invincible, and a duration of 3.0 s)
TankWith(x, y, texture_manager, lives, inv, timer, bullet, move_timer) ==
  [Tank(x, y, texture_manager, 1, lives, 1) EXCEPT
     !.is_invincible = inv,
     !.invincibility_duration =
        IF inv THEN PlayerInvincibilityDuration ELSE 0,
     !.invincibility_timer = timer,
     !.bullet = bullet, !.move_timer = move_timer]

InitTank ==
  /\ tiles = _create_test_map
  /\ total_enemy_spawns = 1
  /\ spawn_timer = 0
  /\ keys = {}
  /\ loop = "off"
  /\ inputs = NoInputs
  /\ player = PlayerTank(PlayerStartX, PlayerStartY)
  /\ \E mt \in {0, MoveDelay}, tm \in {"TextureManager", "int"} :
       \/ \E lv \in {1, 2}, inv \in BOOLEAN :
            \E b \in TankBullets(PlayerStartX, PlayerStartY - 64,
                                  "base_tank") :
              \E it \in InvincibilityTimers(inv) :
                enemies = <<TankWith(PlayerStartX, PlayerStartY - 64, tm, lv,
                                     inv, it, b, mt)>>
       \/ \E tt \in TankTypes :
            \E b \in TankBullets(96, 32, "enemy") :
              enemies = <<[EnemyWith(1, 96, 32, tt, "right", b, mt)
                             EXCEPT !.texture_manager = tm]>>
  /\ call = [NoCall EXCEPT !.target = 1]
  /\ InitCommon

\* the world after a method has left tank t in place of the target, having
\* returned ret or raised
CallEnd(t, op, args, ret, raised) ==
  /\ pc = "idle"
  /\ loop = "off"
  /\ call.n < MaxCalls
  /\ enemies' = [enemies EXCEPT ![call.target] = t]
  /\ call' = [n |-> call.n + 1, target |-> call.target, op |-> op,
              args |-> args, ret |-> ret, raised |-> raised]
  /\ UNCHANGED <<state, tiles, player, total_enemy_spawns, spawn_timer, keys,
                 events, pc, idx, processed_bullets, reverted_tanks,
                 enemies_to_remove, frames, pre, log, loop, inputs>>

CallDone(t, op, args, ret) == CallEnd(t, op, args, ret, FALSE)

Target == TankAt(World, call.target)

CallShoot == CallDone(shoot(Target), "shoot", <<>>, FALSE)

CallTakeDamage ==
  \E amount \in 1 .. MaxDamage :
    LET r == take_damage(Target, amount)
    IN  CallDone(r.tank, "take_damage", <<amount>>, r.destroyed)

CallMove ==
  \E a \in MoveArgs :
    LET r == _move(Target, a[1], a[2])
    IN  CallEnd(r.tank, "_move", a, r.moved, r.raised)

\* update(dt) called on a Tank
CallUpdate ==
  /\ ~IsEnemyTankObject(Target)
  /\ CallDone(Tank_update(Target), "update", <<>>, FALSE)

\* _handle_bullet_collision spends the target's bullet
CallBulletHit ==
  /\ Target.bullet.exists
  /\ CallDone([Target EXCEPT !.bullet.active = FALSE], "hit", <<>>, FALSE)

\* EnemyTank._change_direction called on an enemy
CallChangeDirection ==
  /\ IsEnemyTankObject(Target)
  /\ \E d \in _change_direction(Target.direction) :
       CallDone([Target EXCEPT !.direction = d], "_change_direction", <<>>,
                FALSE)

NextTank ==
  \/ CallShoot
  \/ CallTakeDamage
  \/ CallMove
  \/ CallUpdate
  \/ CallBulletHit
  \/ CallChangeDirection

SpecTank == InitTank /\ [][NextTank]_vars

(***************************************************************************)
(* EnemyTank.update(dt) called on an enemy frame after frame, as the loop  *)
(* "for enemy in self.enemy_tanks[:]" of GameManager.update would call it. *)
(***************************************************************************)
\* update(dt) calls per behaviour
MaxEnemyUpdates == 2

\* an enemy as EnemyTank(x, y, tile_size, tank_type) builds it, or with a
\* TextureManager assigned to it, its move due in this update or in the
\* next one
InitEnemy ==
  /\ tiles = _create_test_map
  /\ total_enemy_spawns = 1
  /\ spawn_timer = 0
  /\ keys = {}
  /\ loop = "off"
  /\ inputs = NoInputs
  /\ player = PlayerTank(PlayerStartX, PlayerStartY)
  /\ \E d \in Dirs, tm \in {"TextureManager", "int"},
        mt \in {MoveDelay - 2, MoveDelay - 1} :
       enemies = <<[EnemyTank(96, 32, "basic", d, 1)
                      EXCEPT !.texture_manager = tm, !.move_timer = mt,
                             !.direction_timer = 10, !.shoot_timer = 10]>>
  /\ call = [NoCall EXCEPT !.target = 1]
  /\ InitCommon

\* enemy.update(dt) returns
CallEnemyUpdate ==
  /\ call.n < MaxEnemyUpdates
  /\ \E e \in EnemyTank_update(Target) :
       CallDone(e, "EnemyTank.update", <<>>, FALSE)

\* enemy.update(dt) is left by the AttributeError of _move
CallEnemyUpdateRaises ==
  /\ call.n < MaxEnemyUpdates
  /\ \E e \in EnemyTank_update_raised(Target) :
       CallEnd(e, "EnemyTank.update", <<>>, FALSE, TRUE)

NextEnemy == CallEnemyUpdate \/ CallEnemyUpdateRaises

SpecEnemy == InitEnemy /\ [][NextEnemy]_vars

(***************************************************************************)
(* Vocabulary of the properties                                            *)
(***************************************************************************)
\* the loop of _process_collisions is about to handle events[idx]
InPass == pc = "resolve" /\ idx <= Len(events)

\* the loop of _process_collisions has handled the whole batch; the roster
\* still holds the enemies queued for removal
PassDone == pc = "resolve" /\ idx > Len(events)

\* the step from this state to the next handles events[idx]
HandlesEvent == InPass /\ idx' = idx + 1

\* the step from this state to the next is a direct call of method op
Calls(op) == call'.n = call.n + 1 /\ call'.op = op

\* _process_collisions has returned and nothing has been called since
PassOver == pc = "idle" /\ call.op = "_process_collisions"

\* an exception has left _process_collisions
PassRaised == log # <<>> /\ log[Len(log)].raised

BulletsOf(ev) == {r \in {ev[1], ev[2]} : IsBullet(r)}

TankStats(t) == <<t.health, t.lives>>

\* a step that leaves damage, tiles, game state and bullets as they were
NoEffect ==
  /\ tiles' = tiles
  /\ state' = state
  /\ player'.lives = player.lives
  /\ player'.is_invincible = player.is_invincible
  /\ <<player'.x, player'.y>> = <<player.x, player.y>>
  /\ Len(enemies') = Len(enemies)
  /\ \A i \in 1 .. Len(enemies) :
       TankStats(enemies'[i]) = TankStats(enemies[i])
  /\ enemies_to_remove' = enemies_to_remove
  /\ \A o \in 0 .. Len(enemies) :
       BulletAt(World', o).active = BulletAt(World, o).active

(***************************************************************************)
(* C1: within one resolve pass a bullet takes effect at most once: once a  *)
(* bullet is processed it is inactive, and the handling of an event with a *)
(* bullet that is inactive or already processed changes no tank's health   *)
(* or lives, no tile, no bullet and not the game state.                    *)
(***************************************************************************)
C1_BulletActsOnce ==
  [][ /\ \A b \in processed_bullets' : ~BulletAt(World', b[2]).active
      /\ (/\ HandlesEvent
          /\ \E b \in BulletsOf(events[idx]) :
               \/ ~BulletAt(World, b[2]).active
               \/ b \in processed_bullets)
         => NoEffect ]_vars

\* an event has acted through a bullet and a later event with that bullet,
\* whose other side is still there to be hit, has been handled
C1_Witness ==
  /\ pc = "resolve"
  /\ \E j, k \in 1 .. Len(log) :
       /\ j < k
       /\ log[j].acted
       /\ ~log[k].acted
       /\ \E b \in BulletsOf(events[j]) \cap BulletsOf(events[k]) :
            /\ b \in processed_bullets
            /\ \E r \in {events[k][1], events[k][2]} \ {b} :
                 \/ IsEnemyTank(r)
                 \/ IsTile(r) /\ tiles[CellOf(r)] \in {"BRICK", "BASE"}
                 \/ IsBullet(r) /\ BulletAt(World, r[2]).active

(***************************************************************************)
(* C10: a bullet-vs-tile event for which the resolver has no rule (WATER,  *)
(* BUSH, ICE, EMPTY, BASE_DESTROYED) is a no-op: the bullet stays active,  *)
(* the tile, the tanks and the game state are unchanged, and the bullet is *)
(* not marked processed, so that a later event of the same batch pairing   *)
(* that bullet with a BRICK, STEEL or BASE tile still stops it.            *)
(***************************************************************************)
NoRuleTypes == {"WATER", "BUSH", "ICE", "EMPTY", "BASE_DESTROYED"}

\* the handled events in which the active bullet b met a tile without a rule
PassedThrough(b) ==
  {j \in 1 .. Len(log) :
     /\ events[j][1] = b
     /\ log[j].a_active
     /\ log[j].b_type \in NoRuleTypes}

C10_NoRuleTileNoOp ==
  [][ HandlesEvent =>
        LET b == events[idx][1]
            other == events[idx][2]
        IN  (IsBullet(b) /\ IsTile(other) /\ BulletAt(World, b[2]).active) =>
              /\ tiles[CellOf(other)] \in NoRuleTypes =>
                    /\ NoEffect
                    /\ BulletAt(World', b[2]).active
                    /\ processed_bullets' = processed_bullets
              /\ (/\ PassedThrough(b) # {}
                  /\ tiles[CellOf(other)] \notin NoRuleTypes) =>
                    /\ ~BulletAt(World', b[2]).active
                    /\ b \in processed_bullets' ]_vars

\* a bullet has passed a WATER or BUSH tile untouched and a later event of
\* the batch has stopped it
C10_Witness ==
  /\ pc = "resolve"
  /\ \E b \in {BulletRef(0), BulletRef(1)} :
       \E j \in PassedThrough(b), k \in 1 .. Len(log) :
         /\ j < k
         /\ log[j].b_type \in {"WATER", "BUSH"}
         /\ ~log[j].acted
         /\ events[k][1] = b
         /\ log[k].a_active
         /\ log[k].acted
         /\ ~BulletAt(World, b[2]).active

(***************************************************************************)
(* C2: when the player's bullet, still active, hits an enemy tank, the     *)
(* bullet becomes inactive and the tank takes exactly 1 damage, once.  The *)
(* roster is not changed while the batch is iterated; the tank is queued   *)
(* for removal, and gone from the roster after the pass, exactly when      *)
(* take_damage reported it destroyed; an enemy that survives the hit and   *)
(* every enemy that was not hit stay in the roster.                        *)
(***************************************************************************)
\* the handled events in which the player's bullet, active, met an enemy
PlayerHits ==
  {k \in 1 .. Len(log) :
     /\ events[k][1] = BulletRef(0)
     /\ IsEnemyTank(events[k][2])
     /\ log[k].a_active}

Ids(ens) == [i \in 1 .. Len(ens) |-> ens[i].id]
IdSet(ens) == {ens[i].id : i \in 1 .. Len(ens)}

C2_PlayerBulletHitsEnemy ==
  /\ pc = "resolve" => Ids(enemies) = Ids(pre.enemies)
  /\ \A k \in PlayerHits :
       LET i == events[k][2][2]
           hit == take_damage(pre.enemies[i], 1)
       IN  /\ ~player.bullet.active
           /\ pc = "resolve" =>
                /\ TankStats(enemies[i]) = TankStats(hit.tank)
                /\ TankStats(hit.tank) =
                     <<IF pre.enemies[i].health > 1
                       THEN pre.enemies[i].health - 1 ELSE 0,
                       IF pre.enemies[i].health > 1
                       THEN pre.enemies[i].lives
                       ELSE pre.enemies[i].lives - 1>>
                /\ (\E n \in 1 .. Len(enemies_to_remove) :
                      enemies_to_remove[n] = i) <=> hit.destroyed
           /\ pc # "resolve" =>
                /\ pre.enemies[i].id \in IdSet(enemies) <=> ~hit.destroyed
                /\ IdSet(pre.enemies) \ {pre.enemies[i].id} \subseteq
                     IdSet(enemies)
                /\ \A n \in 1 .. Len(enemies) :
                     enemies[n].id = pre.enemies[i].id =>
                       TankStats(enemies[n]) = TankStats(hit.tank)

\* the handled events in which an enemy's bullet, active, met the player
EnemyHits ==
  {k \in 1 .. Len(log) :
     /\ IsBullet(events[k][1])
     /\ events[k][1][2] >= 1
     /\ events[k][2] = PlayerRef
     /\ log[k].a_active}

\* the bullet of the enemy that was enemies[i] when the pass began is
\* inactive, as far as that enemy is still in the roster
EnemyBulletInactive(i) ==
  \A n \in 1 .. Len(enemies) :
    enemies[n].id = pre.enemies[i].id => ~enemies[n].bullet.active

(***************************************************************************)
(* C3: when an enemy bullet hits the player, who is not invincible and has *)
(* more than one life, then once the resolve pass has ended, by returning  *)
(* or by raising, the bullet is inactive, the player has exactly one life  *)
(* less, stands at its initial spawn position and is invincible, and the   *)
(* game state is RUNNING.                                                  *)
(***************************************************************************)
C3_HitCostsOneLife ==
  (PassOver \/ PassRaised) =>
    \A k \in EnemyHits :
      (~log[k].invincible /\ log[k].lives > 1) =>
        /\ EnemyBulletInactive(events[k][1][2])
        /\ player.lives = log[k].lives - 1
        /\ <<player.x, player.y>> = player.initial_position
        /\ player.is_invincible
        /\ state = "RUNNING"

(***************************************************************************)
(* C4: when an enemy bullet hits the player, who is not invincible and has *)
(* exactly one life, then after the resolve pass the bullet is inactive,   *)
(* the player's lives are 0, respawn was not performed and the game state  *)
(* is GAME_OVER.                                                           *)
(***************************************************************************)
C4_LastLifeEndsGame ==
  pc # "resolve" =>
    \A k \in EnemyHits :
      (~log[k].invincible /\ log[k].lives = 1) =>
        /\ EnemyBulletInactive(events[k][1][2])
        /\ player.lives = 0
        /\ <<player.x, player.y>> = <<pre.player.x, pre.player.y>>
        /\ ~player.is_invincible
        /\ state = "GAME_OVER"

(***************************************************************************)
(* C9: when an enemy bullet hits the player while the player is            *)
(* invincible, the bullet becomes inactive and the player takes no damage: *)
(* health, lives, position and invincibility are unchanged, respawn is not *)
(* performed, and the game state stays what it was, RUNNING if it was      *)
(* RUNNING.                                                                *)
(***************************************************************************)
C9_InvinciblePlayerUnharmed ==
  [][ (/\ InPass
       /\ IsBullet(events[idx][1])
       /\ events[idx][1][2] >= 1
       /\ events[idx][2] = PlayerRef
       /\ BulletAt(World, events[idx][1][2]).active
       /\ player.is_invincible)
      => /\ pc' = "resolve"
         /\ idx' = idx + 1
         /\ ~BulletAt(World', events[idx][1][2]).active
         /\ player' = player
         /\ state' = state ]_vars

\* an enemy bullet has been stopped by the invincible player in a running
\* game
C9_Witness ==
  /\ state = "RUNNING"
  /\ player.is_invincible
  /\ \E k \in EnemyHits :
       /\ log[k].invincible
       /\ log[k].acted
       /\ log[k].state = "RUNNING"
       /\ pc = "resolve"
       /\ ~BulletAt(World, events[k][1][2]).active

\* the bullet behind the reference b, as the pass found it, is inactive now
BulletInactive(b) ==
  IF b[2] = 0 THEN ~player.bullet.active ELSE EnemyBulletInactive(b[2])

(***************************************************************************)
(* C5 as stated: whenever an active bullet of either owner overlaps the    *)
(* BASE tile in a RUNNING game, after the resolve pass the tile is         *)
(* BASE_DESTROYED, the bullet is inactive and the game state is GAME_OVER. *)
(***************************************************************************)
C5_AsStated ==
  PassOver =>
    \A k \in 1 .. Len(events) :
      (/\ IsBullet(events[k][1])
       /\ events[k][2] = TileRef(BaseCell)
       /\ BulletAt(pre, events[k][1][2]).active
       /\ pre.tiles[BaseCell] = "BASE"
       /\ pre.state = "RUNNING")
      => /\ tiles[BaseCell] = "BASE_DESTROYED"
         /\ BulletInactive(events[k][1])
         /\ state = "GAME_OVER"

(***************************************************************************)
(* C5, amended: whenever the event pairing a bullet of either owner with   *)
(* the BASE tile is handled while the bullet is still active and the tile  *)
(* still BASE, from then on and after that pass the tile is                *)
(* BASE_DESTROYED, the bullet is inactive and the game state is GAME_OVER. *)
(***************************************************************************)
BaseHits ==
  {k \in 1 .. Len(log) :
     /\ IsBullet(events[k][1])
     /\ events[k][2] = TileRef(BaseCell)
     /\ log[k].a_active
     /\ log[k].b_type = "BASE"}

C5_BaseHitEndsGame ==
  \A k \in BaseHits :
    /\ tiles[BaseCell] = "BASE_DESTROYED"
    /\ BulletInactive(events[k][1])
    /\ state = "GAME_OVER"

\* a pass in which a bullet has destroyed the base has ended
C5_Witness ==
  /\ PassOver
  /\ BaseHits # {}
  /\ tiles[BaseCell] = "BASE_DESTROYED"
  /\ state = "GAME_OVER"

(***************************************************************************)
(* C6 as stated: for every event of a frame's batch that pairs an active   *)
(* bullet with a BRICK tile, after the resolve pass the bullet is inactive *)
(* and the tile is EMPTY; with a STEEL tile, the bullet is inactive and    *)
(* the tile is still STEEL.                                                *)
(***************************************************************************)
C6_AsStated ==
  PassOver =>
    \A k \in 1 .. Len(events) :
      (/\ IsBullet(events[k][1])
       /\ IsTile(events[k][2])
       /\ BulletAt(pre, events[k][1][2]).active)
      => LET c == CellOf(events[k][2])
         IN  /\ pre.tiles[c] = "BRICK" =>
                  BulletInactive(events[k][1]) /\ tiles[c] = "EMPTY"
             /\ pre.tiles[c] = "STEEL" =>
                  BulletInactive(events[k][1]) /\ tiles[c] = "STEEL"

(***************************************************************************)
(* C6, amended: for every event of a frame's batch that pairs a bullet     *)
(* with a tile and is handled while the bullet is still active: if the     *)
(* tile is then BRICK, from then on and after the resolve pass the bullet  *)
(* is inactive and the tile is EMPTY; if it is STEEL, the bullet is        *)
(* inactive and the tile is still STEEL.                                   *)
(***************************************************************************)
TileHits(type) ==
  {k \in 1 .. Len(log) :
     /\ IsBullet(events[k][1])
     /\ IsTile(events[k][2])
     /\ log[k].a_active
     /\ log[k].b_type = type}

C6_BrickAndSteel ==
  /\ \A k \in TileHits("BRICK") :
       /\ BulletInactive(events[k][1])
       /\ tiles[CellOf(events[k][2])] = "EMPTY"
  /\ \A k \in TileHits("STEEL") :
       /\ BulletInactive(events[k][1])
       /\ tiles[CellOf(events[k][2])] = "STEEL"

\* a resolve pass in which a bullet has destroyed a brick is over
C6_Witness ==
  /\ PassOver
  /\ \E k \in TileHits("BRICK") :
       /\ pre.tiles[CellOf(events[k][2])] = "BRICK"
       /\ tiles[CellOf(events[k][2])] = "EMPTY"

(***************************************************************************)
(* C7 as stated: when an active player bullet and an active enemy bullet   *)
(* overlap, after the resolve pass both bullets are inactive, and the      *)
(* event changes no tank's health or lives.                                *)
(***************************************************************************)
IsBulletPair(ev) ==
  IsBullet(ev[1]) /\ IsBullet(ev[2]) /\ ev[1][2] = 0 /\ ev[2][2] >= 1

\* the step that handles a player-bullet/enemy-bullet event leaves the
\* health and lives of every tank alone
BulletPairSparesTanks ==
  (HandlesEvent /\ IsBulletPair(events[idx])) =>
    /\ player'.lives = player.lives
    /\ Len(enemies') = Len(enemies)
    /\ \A i \in 1 .. Len(enemies) :
         TankStats(enemies'[i]) = TankStats(enemies[i])
    /\ enemies_to_remove' = enemies_to_remove

C7_AsStated ==
  /\ [](PassDone =>
          \A k \in 1 .. Len(events) :
            (/\ IsBulletPair(events[k])
             /\ BulletAt(pre, 0).active
             /\ BulletAt(pre, events[k][2][2]).active)
            => /\ ~player.bullet.active
               /\ ~enemies[events[k][2][2]].bullet.active)
  /\ [][BulletPairSparesTanks]_vars

(***************************************************************************)
(* C7, amended: when the event pairing the player's bullet with an enemy   *)
(* bullet is handled while both are still active, both bullets are         *)
(* inactive from then on and after the resolve pass, and the event changes *)
(* no tank's health or lives.                                              *)
(***************************************************************************)
BulletPairHits ==
  {k \in 1 .. Len(log) :
     IsBulletPair(events[k]) /\ log[k].a_active /\ log[k].b_active}

C7_BulletsCancel ==
  /\ [](\A k \in BulletPairHits :
          /\ ~player.bullet.active
          /\ EnemyBulletInactive(events[k][2][2]))
  /\ [][BulletPairSparesTanks]_vars

\* a resolve pass in which the two bullets have met is finished
C7_Witness ==
  /\ PassDone
  /\ \E k \in BulletPairHits :
       /\ log[k].acted
       /\ ~player.bullet.active
       /\ ~enemies[events[k][2][2]].bullet.active
       /\ player.lives = pre.player.lives

(***************************************************************************)
(* C8: no friendly fire, over any sequence of passes.  The detector never  *)
(* reports an enemy bullet paired with an enemy tank or with another enemy *)
(* bullet.  So an enemy bullet that overlaps an enemy tank or an enemy     *)
(* bullet is stopped by nothing but its own event with the player, the     *)
(* player's bullet or a tile, and an enemy tank loses health, lives or its *)
(* place in the roster through nothing but the player's bullet.            *)
(***************************************************************************)
IsEnemyBullet(r) == IsBullet(r) /\ r[2] >= 1

IsFriendlyPair(ev) ==
  \/ IsEnemyBullet(ev[1]) /\ (IsEnemyTank(ev[2]) \/ IsEnemyBullet(ev[2]))
  \/ IsEnemyBullet(ev[2]) /\ IsEnemyTank(ev[1])

\* after a pass, an enemy bullet that overlapped another enemy's tank or
\* bullet is active, unless an event paired it with the player, the player's
\* bullet or a tile, and the tank it overlapped is in the roster with its
\* health and lives, unless an event paired it with the player's bullet
OverlapHarmless ==
  PassOver =>
    \A i, j \in 1 .. Len(pre.enemies) :
      (/\ i # j
       /\ pre.enemies[i].bullet.active
       /\ \/ colliderect(BulletRect(pre.enemies[i].bullet),
                         TankRect(pre.enemies[j]))
          \/ /\ pre.enemies[j].bullet.active
             /\ colliderect(BulletRect(pre.enemies[i].bullet),
                            BulletRect(pre.enemies[j].bullet)))
      => /\ (\A k \in 1 .. Len(events) :
               /\ events[k] # <<BulletRef(0), BulletRef(i)>>
               /\ events[k][1] = BulletRef(i) =>
                    ~(events[k][2] = PlayerRef \/ IsTile(events[k][2]))) =>
              \A n \in 1 .. Len(enemies) :
                enemies[n].id = pre.enemies[i].id => enemies[n].bullet.active
         /\ (\A k \in 1 .. Len(events) :
               events[k] # <<BulletRef(0), TankRef(j)>>) =>
              \E n \in 1 .. Len(enemies) :
                /\ enemies[n].id = pre.enemies[j].id
                /\ TankStats(enemies[n]) = TankStats(pre.enemies[j])

C8_NoFriendlyFire ==
  /\ []OverlapHarmless
  /\ [][ /\ \A k \in 1 .. Len(events') : ~IsFriendlyPair(events'[k])
         /\ HandlesEvent =>
              \A i \in 1 .. Len(enemies) :
                /\ (enemies[i].bullet.active /\ ~enemies'[i].bullet.active) =>
                     \/ /\ events[idx][1] = BulletRef(i)
                        /\ events[idx][2] = PlayerRef \/ IsTile(events[idx][2])
                     \/ events[idx] = <<BulletRef(0), BulletRef(i)>>
                /\ (\/ TankStats(enemies'[i]) # TankStats(enemies[i])
                    \/ enemies_to_remove' # enemies_to_remove
                         /\ enemies_to_remove'[Len(enemies_to_remove')] = i) =>
                     /\ events[idx] = <<BulletRef(0), TankRef(i)>>
                     /\ player.bullet.active
         /\ (pc = "resolve" /\ pc' # "resolve") =>
              \A i \in 1 .. Len(enemies) :
                enemies[i].id \notin IdSet(enemies') =>
                  \E n \in 1 .. Len(enemies_to_remove) :
                    enemies_to_remove[n] = i ]_vars

\* a pass has ended in which an enemy bullet overlapped another enemy's
\* tank and another enemy's bullet: the bullets are active, the tanks are
\* in the roster with the health and lives they had
C8_Witness ==
  /\ PassOver
  /\ Ids(enemies) = Ids(pre.enemies)
  /\ \E i, j \in 1 .. Len(enemies) :
       /\ i # j
       /\ pre.enemies[i].bullet.active /\ pre.enemies[j].bullet.active
       /\ colliderect(BulletRect(pre.enemies[i].bullet),
                      TankRect(pre.enemies[j]))
       /\ colliderect(BulletRect(pre.enemies[i].bullet),
                      BulletRect(pre.enemies[j].bullet))
       /\ enemies[i].bullet.active /\ enemies[j].bullet.active
       /\ TankStats(enemies[j]) = TankStats(pre.enemies[j])
       /\ TankStats(enemies[i]) = TankStats(pre.enemies[i])

(***************************************************************************)
(* Tank collisions.  The tanks of a world are referred to by 0 (the        *)
(* player) and by the roster index.                                        *)
(***************************************************************************)
TankIndices(W) == 0 .. Len(W.enemies)

\* the bounding boxes of tanks a and b of W overlap
TanksOverlap(W, a, b) ==
  a # b /\ colliderect(TankRect(TankAt(W, a)), TankRect(TankAt(W, b)))

\* the enemies of a world, by roster index
EnemyIndices(W) == 1 .. Len(W.enemies)

\* enemy o stands where it stood before its move (prev_x, prev_y)
AtFrameStart(o) ==
  /\ TankAt(World, o).x = TankAt(pre, o).prev_x
  /\ TankAt(World, o).y = TankAt(pre, o).prev_y
  /\ TankAt(World, o).rx = TankAt(pre, o).prev_x
  /\ TankAt(World, o).ry = TankAt(pre, o).prev_y

\* enemy o of the world at pass begin left its pre-move position
Moved(o) ==
  \/ TankAt(pre, o).x # TankAt(pre, o).prev_x
  \/ TankAt(pre, o).y # TankAt(pre, o).prev_y

(***************************************************************************)
(* C11: when the bounding boxes of two tanks overlap after a tentative     *)
(* move, then after the loop of the resolve pass the tanks stand at the    *)
(* positions they held before the move (prev_x, prev_y): stated for every  *)
(* enemy that overlaps another tank, the player or an enemy.               *)
(***************************************************************************)
C11_TanksPushedBack ==
  PassDone =>
    \A a \in EnemyIndices(pre), b \in TankIndices(pre) :
      TanksOverlap(pre, a, b) => AtFrameStart(a)

ImpassableTypes == {"STEEL", "WATER", "BASE", "BRICK"}

\* the cells whose tile the box of tank o of W overlaps
CellsUnder(W, o) ==
  {c \in Cells : colliderect(TankRect(TankAt(W, o)), TileRect(c))}

\* tank o of W overlaps a tile that is impassable in W
OnImpassable(W, o) ==
  \E c \in CellsUnder(W, o) : W.tiles[c] \in ImpassableTypes

NoTankOnImpassable ==
  \A o \in TankIndices(World) : ~OnImpassable(World, o)

\* enemy o stands where it stood when the pass began
Unmoved(o) ==
  /\ TankAt(World, o).x = TankAt(pre, o).x
  /\ TankAt(World, o).y = TankAt(pre, o).y

\* the player stands where it stood when the pass began
PlayerUnmoved ==
  /\ player.x = pre.player.x /\ player.y = pre.player.y
  /\ player.rx = pre.player.rx /\ player.ry = pre.player.ry

\* the pass has ended, by returning or by an exception
PassEnded == PassOver \/ PassRaised

ResolvesTankTile(o, c) ==
  /\ HandlesEvent
  /\ events[idx] = <<TankRef(o), TileRef(c)>>
  /\ TankRef(o) \notin reverted_tanks
  /\ tiles[c] \in ImpassableTypes

\* tank t stands flush against rectangle r on the side it met travelling
\* in direction d
Flush(t, r, d) ==
  CASE d = "right" -> t.x = r.x - TILE_SIZE
    [] d = "left" -> t.x = r.x + r.w
    [] d = "down" -> t.y = r.y - TILE_SIZE
    [] d = "up" -> t.y = r.y + r.h

(***************************************************************************)
(* C13: when a tank-vs-impassable-tile collision is resolved, the tank     *)
(* ends flush against the edge of that tile along its direction of travel  *)
(* (right: x = tile.left - width; left: x = tile.right; down: y = tile.top *)
(* - height; up: y = tile.bottom).                                         *)
(***************************************************************************)
C13_SnapToEdge ==
  [][ \A o \in 1 .. Len(enemies), c \in Cells :
        ResolvesTankTile(o, c) =>
          Flush(TankAt(World', o), TileRect(c), TankAt(World, o).direction)
    ]_vars

(***************************************************************************)
(* C14: when the collision of an enemy tank with an impassable tile is     *)
(* resolved, the enemy's direction afterwards differs from the direction   *)
(* in which it hit the tile, and its direction_timer is 0.                 *)
(***************************************************************************)
C14_EnemyTurnsAway ==
  [][ \A o \in 1 .. Len(enemies), c \in Cells :
        ResolvesTankTile(o, c) =>
          /\ enemies'[o].direction # enemies[o].direction
          /\ enemies'[o].direction_timer = 0
    ]_vars

(***************************************************************************)
(* The spawner                                                             *)
(***************************************************************************)
(***************************************************************************)
(* C15: in every reachable state total_enemy_spawns is at most             *)
(* max_enemy_spawns and the roster is no longer than total_enemy_spawns;   *)
(* once the counter has reached the cap, every call of _spawn_enemy        *)
(* returns False and changes neither the roster nor the counter, however   *)
(* many enemies have died.                                                 *)
(***************************************************************************)
C15_SpawnCap ==
  /\ [](/\ total_enemy_spawns <= max_enemy_spawns
        /\ Len(enemies) <= total_enemy_spawns
        /\ (pc = "idle" /\ total_enemy_spawns = max_enemy_spawns) =>
             _spawn_enemy(tiles, player, enemies, total_enemy_spawns) =
               {[enemies |-> enemies, total |-> total_enemy_spawns,
                 ok |-> FALSE, raised |-> FALSE]})
  /\ [][ (Calls("_spawn_enemy") /\ total_enemy_spawns = max_enemy_spawns) =>
           /\ total_enemy_spawns' = total_enemy_spawns
           /\ Ids(enemies') = Ids(enemies)
           /\ ~call'.ret
           /\ ~call'.raised
     ]_vars

\* the spawner has been called with the counter at the cap and fewer
\* enemies alive than were spawned: it has returned False
C15_Witness ==
  /\ call.op = "_spawn_enemy"
  /\ ~call.ret /\ ~call.raised
  /\ total_enemy_spawns = max_enemy_spawns
  /\ Len(enemies) < total_enemy_spawns

CollidableTypes == {"BRICK", "STEEL", "WATER", "BASE"}

\* the tile-sized footprint at spawn point sp
Footprint(sp) == Rect(sp[1] * TILE_SIZE, sp[2] * TILE_SIZE, TILE_SIZE, TILE_SIZE)

\* the cell of spawn point sp and the cells around it
Around(sp) ==
  {c \in (sp[1] - 1 .. sp[1] + 1) \X (sp[2] - 1 .. sp[2] + 1) : c \in Cells}

TileInFootprint(tl, sp) ==
  \E c \in Around(sp) :
    tl[c] \in CollidableTypes /\ colliderect(Footprint(sp), TileRect(c))

EnemyInFootprint(ens, sp) ==
  \E i \in 1 .. Len(ens) : colliderect(Footprint(sp), TankRect(ens[i]))

\* the footprint at sp overlaps a collidable tile, the player or an enemy
FootprintTaken(tl, pl, ens, sp) ==
  \/ TileInFootprint(tl, sp)
  \/ colliderect(Footprint(sp), TankRect(pl))
  \/ EnemyInFootprint(ens, sp)

\* enemy e stands at spawn point sp
StandsAt(e, sp) == e.x = sp[1] * TILE_SIZE /\ e.y = sp[2] * TILE_SIZE

\* outcome r of a call on roster ens and counter total is a refusal: the
\* call returns False
Refused(r, ens, total) ==
  ~r.raised /\ ~r.ok /\ r.enemies = ens /\ r.total = total

\* outcome r appends exactly one enemy, at a free spawn point, and the call
\* returns True
Spawned(r, tl, pl, ens, total) ==
  /\ ~r.raised
  /\ r.ok
  /\ r.total = total + 1
  /\ Len(r.enemies) = Len(ens) + 1
  /\ SubSeq(r.enemies, 1, Len(ens)) = ens
  /\ \E sp \in SPAWN_POINTS :
       /\ StandsAt(r.enemies[Len(r.enemies)], sp)
       /\ ~FootprintTaken(tl, pl, ens, sp)

(***************************************************************************)
(* C16: _spawn_enemy returns False and leaves the roster and the counter   *)
(* unchanged when the footprint at the chosen spawn point overlaps a       *)
(* collidable tile, the player or an enemy of the roster; when it returns  *)
(* True, exactly one enemy has been appended, at one of the fixed spawn    *)
(* points, and total_enemy_spawns has grown by exactly 1.  Every call does *)
(* the one or the other.                                                   *)
(***************************************************************************)
C16_SpawnOutcome ==
  /\ [](LET outs == _spawn_enemy(tiles, player, enemies, total_enemy_spawns)
        IN  pc = "idle" =>
            /\ \A r \in outs :
                 \/ Refused(r, enemies, total_enemy_spawns)
                 \/ Spawned(r, tiles, player, enemies, total_enemy_spawns)
            /\ \A sp \in SPAWN_POINTS :
                 FootprintTaken(tiles, player, enemies, sp) =>
                   \E r \in outs : Refused(r, enemies, total_enemy_spawns))
  /\ [][ Calls("_spawn_enemy") =>
           /\ ~call'.raised
           /\ \/ /\ ~call'.ret
                 /\ total_enemy_spawns' = total_enemy_spawns
                 /\ Ids(enemies') = Ids(enemies)
              \/ /\ call'.ret
                 /\ total_enemy_spawns' = total_enemy_spawns + 1
                 /\ Len(enemies') = Len(enemies) + 1
                 /\ Ids(SubSeq(enemies', 1, Len(enemies))) = Ids(enemies)
                 /\ \E sp \in SPAWN_POINTS :
                      /\ StandsAt(enemies'[Len(enemies')], sp)
                      /\ ~FootprintTaken(tiles', player',
                                         SubSeq(enemies', 1, Len(enemies)),
                                         sp)
     ]_vars

(***************************************************************************)
(* Victory                                                                 *)
(***************************************************************************)
CapReached == total_enemy_spawns >= max_enemy_spawns

(***************************************************************************)
(* C18: when a resolve pass (_process_collisions) destroys the last enemy  *)
(* of the roster while total_enemy_spawns equals max_enemy_spawns, the     *)
(* game state is VICTORY when _process_collisions returns; when an enemy   *)
(* remains in the roster after the pass, the state is not VICTORY.         *)
(***************************************************************************)
C18_VictoryWhenPassReturns ==
  PassOver =>
    /\ (/\ Len(pre.enemies) > 0
        /\ enemies = <<>>
        /\ total_enemy_spawns = max_enemy_spawns) => state = "VICTORY"
    /\ enemies # <<>> => state # "VICTORY"

(***************************************************************************)
(* Input: restart and quit                                                 *)
(***************************************************************************)
\* the step from this state to the next is the iteration of handle_events
\* that handles event e
Handles(e) == inputs'.n = inputs.n + 1 /\ inputs'.last = e

\* the world the claim expects of _reset_game
Reinitialised ==
  /\ state = "RUNNING"
  /\ Len(enemies) = 1
  /\ total_enemy_spawns = 1
  /\ spawn_timer = 0
  /\ player.x = PlayerStartX /\ player.y = PlayerStartY
  /\ player.lives = PlayerLives
  /\ ~player.bullet.exists
  /\ Cardinality({c \in Cells : tiles[c] = "BASE"}) = 1

(***************************************************************************)
(* C19: a restart input (R key) handled while the state is GAME_OVER or    *)
(* VICTORY reinitialises the whole world: state RUNNING, exactly one enemy *)
(* in the roster, total_enemy_spawns = 1, spawn_timer = 0, the player at   *)
(* its start position with 3 lives and no bullet, exactly one BASE tile;   *)
(* a restart input handled while the state is RUNNING changes nothing.     *)
(***************************************************************************)
C19_Restart ==
  [][ Handles(Event("KEYDOWN", "K_r")) =>
        /\ state \in {"GAME_OVER", "VICTORY"} => Reinitialised'
        /\ state = "RUNNING" =>
             UNCHANGED <<state, tiles, player, enemies, total_enemy_spawns,
                         spawn_timer, keys, events>>
    ]_vars

(***************************************************************************)
(* C20: a quit event or an escape key press handled in any state sets the  *)
(* state to EXIT, and EXIT is terminal: once the state is EXIT no later    *)
(* event of the same or a later batch and no update changes it, and the    *)
(* main loop stops at the end of that iteration.                           *)
(***************************************************************************)
C20_ExitTerminal ==
  [][ /\ (Handles(Event("QUIT", "none")) \/ Handles(Event("KEYDOWN", "K_ESCAPE")))
          => (state' = "EXIT" /\ pc' # "raised")
      /\ state = "EXIT" => (state' = "EXIT" /\ pc' # "raised")
    ]_vars

\* the step from this state to the next is a call of update()
CallsUpdate == pc = "idle" /\ frames' = frames + 1

\* the step handles a restart or a quit input
HandlesRestartOrQuit ==
  \/ Handles(Event("KEYDOWN", "K_r"))
  \/ Handles(Event("QUIT", "none"))
  \/ Handles(Event("KEYDOWN", "K_ESCAPE"))

(***************************************************************************)
(* C21: update() called while the state is not RUNNING changes nothing: no *)
(* tank or bullet is updated, the spawn timer does not advance, no spawn   *)
(* is attempted, no detection and no resolution run; tiles, roster,        *)
(* counters and state are unchanged.  GAME_OVER and VICTORY are therefore  *)
(* left only by a restart or a quit input.                                 *)
(***************************************************************************)
C21_NotRunningFrozen ==
  [][ /\ (CallsUpdate /\ state # "RUNNING") =>
           /\ UNCHANGED <<state, tiles, player, enemies, total_enemy_spawns,
                          spawn_timer, keys, events, enemies_to_remove>>
           /\ pc' = "idle"
      /\ (state \in {"GAME_OVER", "VICTORY"} /\ state' # state) =>
           HandlesRestartOrQuit
    ]_vars

\* update() has returned in GAME_OVER after a batch of two inputs that
\* were neither restart nor quit, and the spawn timer stands where it stood
C21_Witness ==
  /\ state = "GAME_OVER"
  /\ frames = 1
  /\ loop = "render"
  /\ pc = "idle"
  /\ spawn_timer = 20
  /\ inputs.n = 2

\* the tank the direct calls go to, after the step
TargetNext == TankAt(World', call.target)

\* the bullet Tank.shoot creates for tank t
FreshBullet(t) ==
  Bullet(t.x + (TILE_SIZE \div 2) - (BULLET_WIDTH \div 2),
         t.y + (TILE_SIZE \div 2) - (BULLET_HEIGHT \div 2),
         t.direction, t.owner_type)

InFlight(b) == b.exists /\ b.active
Spent(b) == b.exists /\ ~b.active

(***************************************************************************)
(* C22: a tank owns at most one active bullet: shoot() called while the    *)
(* tank's bullet is active is a no-op (the same bullet is kept,            *)
(* unchanged), and shoot() creates a new active bullet carrying the tank's *)
(* current direction and owner_type only when the tank has no bullet or    *)
(* its bullet is inactive.                                                 *)
(***************************************************************************)
C22_OneBulletInFlight ==
  [][ Calls("shoot") =>
        /\ InFlight(Target.bullet) => TargetNext = Target
        /\ ~InFlight(Target.bullet) =>
             /\ TargetNext = [Target EXCEPT !.bullet = FreshBullet(Target)]
             /\ InFlight(TargetNext.bullet)
             /\ TargetNext.bullet.direction = Target.direction
             /\ TargetNext.bullet.owner_type = Target.owner_type
    ]_vars

\* shoot() has just been called on a tank whose bullet was in flight away
\* from it: the bullet is still that one
C22_Witness ==
  /\ call.op = "shoot"
  /\ InFlight(Target.bullet)
  /\ Target.bullet # FreshBullet(Target)

(***************************************************************************)
(* C23: once a bullet's active flag is false it never becomes true again:  *)
(* update() on an inactive bullet changes neither its position nor its     *)
(* flag, no resolver rule reactivates it, and a later shot replaces it by  *)
(* a different bullet.                                                     *)
(***************************************************************************)
C23_SpentBulletStaysSpent ==
  [][ \A i \in 1 .. Len(enemies) : \A j \in 1 .. Len(enemies') :
        (Spent(enemies[i].bullet) /\ enemies'[j].id = enemies[i].id) =>
          \/ enemies'[j].bullet = enemies[i].bullet
          \/ /\ Calls("shoot")
             /\ call.target = i
             /\ enemies'[j].bullet = FreshBullet(enemies[i])
    ]_vars

\* update() has just been called on a tank whose bullet was spent by the
\* resolver in the call before: the bullet is still spent
C23_Witness ==
  /\ call.op = "update"
  /\ call.n = 3
  /\ Spent(Target.bullet)
  /\ Target.bullet.y # 4
  /\ Target.bullet.y # Target.y - 20

(***************************************************************************)
(* C24: take_damage(n) with n >= 1 on a non-invincible tank keeps health   *)
(* within [0, max_health]; if health reaches 0 exactly one life is         *)
(* consumed and the call returns True exactly when no lives remain         *)
(* afterwards, otherwise health is reset to max_health and it returns      *)
(* False; if health stays above 0, lives are unchanged and it returns      *)
(* False.  On an invincible tank take_damage returns False and changes     *)
(* neither health nor lives.                                               *)
(***************************************************************************)
C24_TakeDamage ==
  [][ Calls("take_damage") =>
        LET t == Target
            u == TargetNext
            n == call'.args[1]
            ret == call'.ret
        IN  /\ n >= 1
            /\ t.is_invincible => (~ret /\ u = t)
            /\ ~t.is_invincible =>
                 /\ u.health \in 0 .. u.max_health
                 /\ u = [t EXCEPT !.health = u.health, !.lives = u.lives]
                 /\ t.health - n <= 0 =>
                      /\ u.lives = t.lives - 1
                      /\ ret <=> u.lives <= 0
                      /\ ret => u.health = 0
                      /\ ~ret => u.health = u.max_health
                 /\ t.health - n > 0 =>
                      /\ u.health = t.health - n
                      /\ u.lives = t.lives
                      /\ ~ret
    ]_vars

\* the first call was take_damage on a tank with two lives: one life is
\* gone, the health is back at its maximum and the call returned False
C24_Witness ==
  /\ call = [n |-> 1, target |-> 1, op |-> "take_damage", args |-> <<1>>,
             ret |-> FALSE, raised |-> FALSE]
  /\ ~Target.is_invincible
  /\ pre.enemies[1].lives = 2
  /\ Target.lives = 1
  /\ Target.health = Target.max_health

(***************************************************************************)
(* C25: a rejected move changes nothing: _move(dx, dy) returns False and   *)
(* leaves position, previous position and move_timer unchanged when        *)
(* move_timer < move_delay, and also when dx and dy are both nonzero; an   *)
(* accepted move changes the position on at most one axis and resets       *)
(* move_timer to 0.  An accepted move returns True, except on a tank that  *)
(* holds no texture manager, where _update_sprite raises after the         *)
(* position and the timer have been assigned; a rejected move never        *)
(* raises.                                                                 *)
(***************************************************************************)
C25_RejectedMove ==
  [][ Calls("_move") =>
        LET t == Target
            u == TargetNext
            dx == call'.args[1]
            dy == call'.args[2]
            ret == call'.ret
        IN  IF t.move_timer < MoveDelay \/ (dx # 0 /\ dy # 0)
            THEN ~ret /\ ~call'.raised /\ u = t
            ELSE /\ ret <=> HasSprites(t)
                 /\ call'.raised <=> ~HasSprites(t)
                 /\ u.x = t.x \/ u.y = t.y
                 /\ u.move_timer = 0
    ]_vars

\* a diagonal move has just been rejected although the move timer had
\* elapsed
C25_Witness ==
  /\ call.op = "_move"
  /\ call.args = <<1, 1>>
  /\ ~call.ret
  /\ Target.move_timer >= MoveDelay

\* (x, y) is a corner of the tile grid
Aligned(x, y) == x % TILE_SIZE = 0 /\ y % TILE_SIZE = 0

(***************************************************************************)
(* C26: grid alignment: at the end of every frame every tank's x and y are *)
(* multiples of the tile size, because each accepted move advances the     *)
(* position by exactly one tile extent and each revert restores an aligned *)
(* position.  Stated for one move: a tank that stands on a multiple of the *)
(* tile size when _move is called stands on one when the call is over.     *)
(***************************************************************************)
C26_GridAligned ==
  [][ (Calls("_move") /\ Aligned(Target.x, Target.y)) =>
        Aligned(TargetNext.x, TargetNext.y)
    ]_vars

\* the step from this state to the next is part of a resolve pass
InResolve == pc = "resolve"

(***************************************************************************)
(* C27: in every reachable state of a game at most one tile has type BASE; *)
(* during a game tile types change only BRICK -> EMPTY and                 *)
(* BASE -> BASE_DESTROYED, each only in a resolve pass: no tile ever       *)
(* becomes BASE or BRICK, a BASE_DESTROYED tile never becomes BASE again,  *)
(* and STEEL, WATER, BUSH, ICE and EMPTY tiles never change type.          *)
(***************************************************************************)
C27_TileTypes ==
  /\ [](Cardinality({c \in Cells : tiles[c] = "BASE"}) <= 1)
  /\ [][ \A c \in Cells :
           tiles'[c] # tiles[c] =>
             /\ InResolve
             /\ \/ tiles[c] = "BRICK" /\ tiles'[c] = "EMPTY"
                \/ tiles[c] = "BASE" /\ tiles'[c] = "BASE_DESTROYED"
       ]_vars

\* a brick of the map has been shot away in the pass and the steel border
\* stands
C27_Witness ==
  /\ PassOver
  /\ pre.tiles[VarCell] = "BRICK"
  /\ tiles[VarCell] = "EMPTY"
  /\ tiles[<<0, 0>>] = "STEEL"

\* the references update() hands to the detector: the bullets in flight,
\* the tiles of each list and the tanks (roster Wd)
PlayerBulletSet == IF InFlight(player.bullet) THEN {BulletRef(0)} ELSE {}
EnemyBulletSet ==
  {BulletRef(i) : i \in {n \in 1 .. Len(enemies) : InFlight(enemies[n].bullet)}}
TilesOfTypes(types) == {TileRef(c) : c \in {d \in Cells : tiles[d] \in types}}
DestructibleSet == TilesOfTypes({"BRICK"})
ImpassableSet == TilesOfTypes({"STEEL", "WATER", "BASE", "BRICK"})
BaseSet == TilesOfTypes({"BASE"})
EnemyTankSet(Wd) == {TankRef(i) : i \in 1 .. Len(Wd.enemies)}
AllTankSet(Wd) == {PlayerRef} \cup EnemyTankSet(Wd)

\* the group pairings check_collisions enumerates
Pairings(Wd) ==
  (PlayerBulletSet \X EnemyTankSet(Wd))
    \cup (PlayerBulletSet \X DestructibleSet)
    \cup (PlayerBulletSet \X EnemyBulletSet)
    \cup (PlayerBulletSet \X ImpassableSet)
    \cup (EnemyBulletSet \X BaseSet)
    \cup (EnemyBulletSet \X {PlayerRef})
    \cup (EnemyBulletSet \X DestructibleSet)
    \cup (EnemyBulletSet \X ImpassableSet)
    \cup (AllTankSet(Wd) \X ImpassableSet)
    \cup {p \in AllTankSet(Wd) \X AllTankSet(Wd) : p[1][2] < p[2][2]}

EventSet(evs) == {evs[k] : k \in 1 .. Len(evs)}

(***************************************************************************)
(* C28: check_collisions is a pure report: it changes no entity, tile,     *)
(* roster or game state, and after each call the event list holds exactly  *)
(* the pairs, among the enumerated group pairings, whose bounding boxes    *)
(* overlap at the time of that call; no event of an earlier call remains,  *)
(* and with no overlap the list is empty.                                  *)
(***************************************************************************)
C28_PureReport ==
  [][ Calls("check_collisions") =>
        /\ EventSet(events') =
             {p \in Pairings(World) : Overlap(World, p[1], p[2])}
        /\ UNCHANGED <<state, tiles, player, enemies, total_enemy_spawns,
                       spawn_timer>>
    ]_vars

\* the detector has been called a second time and reports the player's
\* bullet no more, although the first report held that bullet and the
\* brick it then broke
C28_Witness ==
  /\ call.op = "check_collisions"
  /\ call.n = 3
  /\ \A k \in 1 .. Len(events) : events[k][1] # BulletRef(0)
  /\ Spent(player.bullet)
  /\ pre.tiles[VarCell] = "BRICK"
  /\ tiles[VarCell] = "EMPTY"
  /\ colliderect(BulletRect(player.bullet), TileRect(VarCell))

(***************************************************************************)
(* C29: within one resolve pass a tank's position is reverted at most      *)
(* once: once a tank has been reverted by a tank-vs-tile or tank-vs-tank   *)
(* event, no later event of the same batch reverts it again, whatever the  *)
(* other tank of that later event is.                                      *)
(***************************************************************************)
C29_RevertedOnce ==
  \A k \in 1 .. Len(log) : \A m \in 1 .. Len(log) :
    k < m => log[k].reverted \cap log[m].reverted = {}

\* the events list is the report of the detector's call that has just
\* returned
Detected == pc = "idle" /\ call.op = "check_collisions"

\* how often the pair p is in the events list
Count(p) == Cardinality({k \in 1 .. Len(events) : events[k] = p})

\* no tank is paired with itself and no pair of tanks is reported in both
\* orders
TankPairsOnce ==
  \A k \in 1 .. Len(events) :
    (IsTank(events[k][1]) /\ IsTank(events[k][2])) =>
      /\ events[k][1] # events[k][2]
      /\ Count(events[k]) = 1
      /\ Count(<<events[k][2], events[k][1]>>) = 0

\* the tile of the pair is in two of the lists the bullet is paired with:
\* a BRICK is destructible and impassable, the BASE is player_base and
\* impassable for an enemy's bullet
InTwoLists(p) ==
  /\ IsBullet(p[1])
  /\ IsTile(p[2])
  /\ \/ tiles[CellOf(p[2])] = "BRICK"
     \/ tiles[CellOf(p[2])] = "BASE" /\ p[1] # BulletRef(0)

(***************************************************************************)
(* C30 as stated: each overlapping pair of objects appears in a report's   *)
(* event list at most once, with the tile lists and bullet lists that      *)
(* update() passes to the detector: no tank is paired with itself, each    *)
(* unordered pair of tanks is reported once, and a bullet overlapping one  *)
(* tile (including a BRICK or the BASE) yields one event for that bullet   *)
(* and tile.                                                               *)
(***************************************************************************)
C30_AsStated ==
  Detected =>
    /\ TankPairsOnce
    /\ \A k \in 1 .. Len(events) : Count(events[k]) = 1

(***************************************************************************)
(* C30, amended: no tank is paired with itself, each unordered pair of     *)
(* tanks is reported once, and every other overlapping pair is reported    *)
(* once, except that a bullet overlapping a BRICK tile, and an enemy's     *)
(* bullet overlapping the BASE, yield two events for that bullet and tile. *)
(***************************************************************************)
C30_PairsOnceOrTwice ==
  Detected =>
    /\ TankPairsOnce
    /\ \A k \in 1 .. Len(events) :
         Count(events[k]) = IF InTwoLists(events[k]) THEN 2 ELSE 1

\* the detector has reported the player's bullet and the brick above the
\* player twice, and a tank with what it overlaps once
C30_Witness ==
  /\ Detected
  /\ tiles[VarCell] = "BRICK"
  /\ Count(<<BulletRef(0), TileRef(VarCell)>>) = 2
  /\ \E k \in 1 .. Len(events) :
       /\ IsTank(events[k][1])
       /\ Count(events[k]) = 1

(***************************************************************************)
(* C31: the spawner runs on its own timer.  update() attempts a spawn only *)
(* in a frame where spawn_timer has reached spawn_interval; spawn_timer    *)
(* is reset to 0 only by a successful spawn; a failed (blocked) attempt    *)
(* leaves the timer elapsed, so that the next frame attempts again, and    *)
(* the frame goes on to its collision pass as any other.  Stated for one   *)
(* update() of a RUNNING game: it returns, and it leaves spawn_timer at 0  *)
(* after a spawn, and one frame further in every other case.               *)
(***************************************************************************)
C31_SpawnTimer ==
  [][ (CallsUpdate /\ state = "RUNNING") =>
        /\ pc' # "raised"
        /\ spawn_timer' = IF total_enemy_spawns' = total_enemy_spawns + 1
                          THEN 0 ELSE spawn_timer + 1
        /\ total_enemy_spawns' # total_enemy_spawns =>
             spawn_timer + 1 >= spawn_interval
    ]_vars

\* position (x, y) is outside the playfield, as Bullet.update tests it
OutOfPlayfield(x, y) ==
  \/ x < 0
  \/ x > GRID_WIDTH * TILE_SIZE
  \/ y < 0
  \/ y > GRID_HEIGHT * TILE_SIZE

\* bullet b2 is bullet b one step of speed * dt further along b's direction
OneStepOn(b, b2) ==
  /\ b2.direction = b.direction
  /\ b2.owner_type = b.owner_type
  /\ b.direction = "left" => (b2.x = b.x - BulletStep /\ b2.y = b.y)
  /\ b.direction = "right" => (b2.x = b.x + BulletStep /\ b2.y = b.y)
  /\ b.direction = "up" => (b2.y = b.y - BulletStep /\ b2.x = b.x)
  /\ b.direction = "down" => (b2.y = b.y + BulletStep /\ b2.x = b.x)

(***************************************************************************)
(* C32: an active bullet moves on every update by speed * dt along its own *)
(* direction only (its coordinate on the other axis never changes),        *)
(* whatever the value of its owner's move timer, and it deactivates itself *)
(* in the update in which its position leaves the playfield (x < 0,        *)
(* x > GRID_WIDTH * TILE_SIZE, y < 0 or y > GRID_HEIGHT * TILE_SIZE), and  *)
(* in no other update.                                                     *)
(***************************************************************************)
C32_BulletFlight ==
  [][ (Calls("update") /\ InFlight(Target.bullet)) =>
        /\ OneStepOn(Target.bullet, TargetNext.bullet)
        /\ TargetNext.bullet.exists
        /\ TargetNext.bullet.active =
             ~OutOfPlayfield(TargetNext.bullet.x, TargetNext.bullet.y)
    ]_vars

\* update() has just moved a bullet past the top edge of the playfield and
\* the bullet is spent
C32_Witness ==
  /\ call.op = "update"
  /\ Target.bullet.exists /\ ~Target.bullet.active
  /\ Target.bullet.y < 0
  /\ Target.bullet.y >= -BulletStep

\* the frames of invincibility tank t has left
InvincibilityLeft(t) == t.invincibility_duration - t.invincibility_timer

(***************************************************************************)
(* C33: invincibility always ends.  While a tank is invincible with a      *)
(* duration D > 0, no call other than update() touches is_invincible or    *)
(* the timer; an update() that leaves the accumulated timer below D keeps  *)
(* the tank invincible and brings the timer one frame closer to D; the     *)
(* first update() in which the timer reaches D makes is_invincible false   *)
(* and resets the timer to 0.  The frames left are a measure that every    *)
(* update decreases, so the end is reached after finitely many updates.    *)
(***************************************************************************)
C33_InvincibilityEnds ==
  [][ (call'.n = call.n + 1 /\ Target.is_invincible /\
       Target.invincibility_duration > 0) =>
        /\ InvincibilityLeft(Target) >= 1
        /\ ~Calls("update") =>
             /\ TargetNext.is_invincible
             /\ TargetNext.invincibility_timer = Target.invincibility_timer
        /\ (Calls("update") /\ InvincibilityLeft(Target) > 1) =>
             /\ TargetNext.is_invincible
             /\ InvincibilityLeft(TargetNext) = InvincibilityLeft(Target) - 1
        /\ (Calls("update") /\ InvincibilityLeft(Target) = 1) =>
             /\ ~TargetNext.is_invincible
             /\ TargetNext.invincibility_timer = 0
        /\ TargetNext.invincibility_duration = Target.invincibility_duration
    ]_vars

\* a tank that was invincible two updates short of the duration has been
\* updated twice: the invincibility is over and the timer is back at 0
C33_Witness ==
  /\ pre.enemies[1].is_invincible
  /\ pre.enemies[1].invincibility_timer = PlayerInvincibilityDuration - 2
  /\ call.op = "update"
  /\ ~Target.is_invincible
  /\ Target.invincibility_timer = 0

(***************************************************************************)
(* C34: the player's lives never drop below 0 in any reachable state,      *)
(* including a frame in which two or more enemy bullets overlap the player *)
(* at once: the hits of one resolve pass consume at most one life, so the  *)
(* lives are never more than one below what they were when the pass began. *)
(***************************************************************************)
C34_LivesNeverNegative ==
  /\ player.lives >= 0
  /\ (pc = "resolve" \/ PassOver \/ PassRaised) =>
       player.lives >= pre.player.lives - 1

\* the enemy bullet of batch[k] overlaps the player
HitsPlayer(batch, k) == IsBullet(batch[k][1]) /\ batch[k][2] = PlayerRef

\* a pass whose batch held two enemy bullets on a player with one life has
\* ended
C34_Witness ==
  /\ PassOver \/ PassRaised
  /\ pre.player.lives = 1
  /\ \E k, m \in 1 .. Len(events) :
       /\ HitsPlayer(events, k) /\ HitsPlayer(events, m)
       /\ events[k][1] # events[m][1]

\* the pass that has just ended removed the last enemy of the roster with
\* the spawn cap reached
LastEnemyFell ==
  /\ pre.state = "RUNNING"
  /\ Len(pre.enemies) > 0
  /\ enemies = <<>> /\ CapReached

\* ... destroyed the base
BaseFell ==
  /\ pre.tiles[BaseCell] = "BASE"
  /\ tiles[BaseCell] = "BASE_DESTROYED"

\* ... took the player's last life
LastLifeLost == pre.player.lives > 0 /\ player.lives <= 0

(***************************************************************************)
(* C35: GAME_OVER takes priority over VICTORY.  If the last enemy is       *)
(* destroyed with the spawn cap reached and, in the same resolve pass, the *)
(* base is hit or the player loses its last life, the state when the pass  *)
(* returns is GAME_OVER, and no later step of update() leaves GAME_OVER:   *)
(* VICTORY is never entered afterwards.                                    *)
(***************************************************************************)
C35_GameOverBeforeVictory ==
  /\ []((PassOver /\ LastEnemyFell /\ (BaseFell \/ LastLifeLost)) =>
          state = "GAME_OVER")
  /\ [][state = "GAME_OVER" => state' = "GAME_OVER"]_vars

\* a pass has ended in which the player's bullet destroyed the last enemy
\* and that enemy's bullet destroyed the base, and update() has been called
\* since: the game is over, not won
C35_Witness ==
  /\ pc = "idle" /\ frames = 1
  /\ LastEnemyFell /\ BaseFell
  /\ state = "GAME_OVER"

(***************************************************************************)
(* C36: in every reachable state, if the game state is GAME_OVER then the  *)
(* base tile has type BASE_DESTROYED or the player has no lives left;      *)
(* GAME_OVER is entered only by a resolve pass that began in RUNNING,      *)
(* while an event of the pass is handled.                                  *)
(***************************************************************************)
C36_GameOverCause ==
  /\ [](state = "GAME_OVER" =>
          (tiles[BaseCell] = "BASE_DESTROYED" \/ player.lives <= 0))
  /\ [][ (state # "GAME_OVER" /\ state' = "GAME_OVER") =>
           /\ pc = "resolve"
           /\ idx <= Len(events) /\ idx' = idx + 1
           /\ state = "RUNNING" /\ pre.state = "RUNNING"
     ]_vars

\* a pass that began in RUNNING has ended in GAME_OVER with the base
\* destroyed and the player's lives untouched
C36_Witness ==
  /\ PassOver
  /\ state = "GAME_OVER" /\ pre.state = "RUNNING"
  /\ tiles[BaseCell] = "BASE_DESTROYED"
  /\ player.lives = pre.player.lives /\ player.lives > 0

(***************************************************************************)
(* C37: at the end of every frame that began in RUNNING no two tanks of    *)
(* the roster (player and enemies) have overlapping bounding boxes,        *)
(* whatever the number of tanks and the moves, reverts, spawns and player  *)
(* respawns of that frame.  Stated for the resolve pass, the last step of  *)
(* a frame that changes a position.                                        *)
(***************************************************************************)
C37_NoTankOverlap ==
  (PassOver /\ pre.state = "RUNNING") =>
    \A a, b \in TankIndices(World) : ~TanksOverlap(World, a, b)

(***************************************************************************)
(* The run loop as a process: run() goes on until an exception leaves it.  *)
(***************************************************************************)
SpecRunLive == SpecRun /\ WF_vars(NextRun)

\* the enemy with identity id has a bullet in flight
EnemyBulletInFlight(id) ==
  \E i \in 1 .. Len(enemies) :
    enemies[i].id = id /\ InFlight(enemies[i].bullet)

(***************************************************************************)
(* C38: every fired bullet eventually becomes inactive.  While the game    *)
(* stays RUNNING and the bullet's owner stays in the roster, a bullet in   *)
(* flight is deactivated after finitely many frames; stated for the        *)
(* player's bullet and for the bullets of the first two enemies.           *)
(***************************************************************************)
C38_BulletsEnd ==
  /\ (state = "RUNNING" /\ InFlight(player.bullet))
       ~> (state # "RUNNING" \/ ~InFlight(player.bullet))
  /\ \A id \in 1 .. 2 :
       (state = "RUNNING" /\ EnemyBulletInFlight(id))
         ~> (state # "RUNNING" \/ ~EnemyBulletInFlight(id))

\* enemy e's direction timer reaches direction_change_interval in the
\* update() that begins now
DirectionDue(e) ==
  e.direction_timer + 1 >= TypeDirectionInterval(e.tank_type)

\* enemy e's move timer reaches move_delay in the update() that begins now
MoveDue(e) == e.move_timer + 1 >= MoveDelay

(***************************************************************************)
(* C39: an enemy tank changes direction in update() only when its          *)
(* direction timer has reached direction_change_interval, or when a move   *)
(* it attempted failed or was reverted.  In an update() in which its       *)
(* direction timer has not elapsed and it does not move because its move   *)
(* timer has not elapsed, and in an update() in which its direction timer  *)
(* has not elapsed and it moves, its direction is unchanged.               *)
(***************************************************************************)
C39_DirectionKept ==
  [][ (/\ Calls("EnemyTank.update")
       /\ ~DirectionDue(Target)
       /\ \/ ~MoveDue(Target)
          \/ <<TargetNext.x, TargetNext.y>> # <<Target.x, Target.y>>)
        => TargetNext.direction = Target.direction
    ]_vars

(***************************************************************************)
(* C40: _change_direction never selects the direction opposite to the      *)
(* enemy's current direction (up/down, left/right): after any call the new *)
(* direction is one of the four directions and is not the reverse of the   *)
(* direction before the call; nothing else of the tank changes.            *)
(***************************************************************************)
C40_NoReversal ==
  [][ Calls("_change_direction") =>
        /\ TargetNext.direction \in Dirs
        /\ TargetNext.direction # opposite_direction(Target.direction)
        /\ TargetNext = [Target EXCEPT !.direction = TargetNext.direction]
    ]_vars

\* the first call on an enemy facing right has turned it up or down
C40_Witness ==
  /\ call.n = 1 /\ call.op = "_change_direction"
  /\ pre.enemies[1].direction = "right"
  /\ Target.direction \in {"up", "down"}

====
